---- MODULE Spec2Model ----
(***************************************************************************)
(* Model of recpyx: the recurrence expander (src/dateutil/rrule.py), the   *)
(* occurrence engine and the validator (src/recpyx/engine.py), over the IR *)
(* produced by the EN parser (src/recpyx/en.py); and, for calls followed   *)
(* from their text, the EN parser itself, the FR transliteration           *)
(* (src/fr_impl.py) and the language dispatcher (src/recpyx/parser.py).    *)
(*                                                                         *)
(* An instant is a number of seconds of wall-clock time since              *)
(* 2026-01-01T00:00:00 in the schedule's zone (all datetimes of one call   *)
(* carry the same tzinfo, so Python compares and adds them as wall-clock   *)
(* values).  A date is a number of days since 2026-01-01 (a Thursday).     *)
(***************************************************************************)
EXTENDS Integers, Sequences, FiniteSets, TLC

\* ------------------------------------------------------------------------
\* Bounds of the model
\* ------------------------------------------------------------------------

\* number of calendar years the model's datetime range covers (stands for
\* datetime.MAXYEAR: arithmetic leaving the range raises)
NumYears == 3

\* largest number of rules in a composed schedule
MaxRules == 2

\* number of API calls made one after the other with the same arguments
MaxCalls == 2

\* ------------------------------------------------------------------------
\* Calendar primitives (datetime / date / timedelta of the standard library)
\* ------------------------------------------------------------------------

Minute == 60
Hour == 60 * 60
Day == 24 * 60 * 60

FirstYear == 2025 + 1
LastYear == FirstYear + NumYears - 1
Years == FirstYear..LastYear

IsLeap(y) == (y % 4 = 0 /\ y % 100 # 0) \/ (y % 400 = 0)

DaysInYear(y) == IF IsLeap(y) THEN 366 ELSE 365

\* Optional values: None is -1 for instants, dates, hours and minutes
None == 0 - 1
\* an expander loop that never exits (the call does not return)
Hang == 0 - 2
\* a date computed outside the datetime range, or an invalid date: the
\* standard library raises ValueError / OverflowError
RangeErr == 0 - 3

IsErr(v) == v = Hang \/ v = RangeErr

\* _last_day_of_month
LastDayOfMonth(y, m) ==
    IF m = 2 THEN (IF IsLeap(y) THEN 29 ELSE 28)
    ELSE IF m \in {4, 6, 9, 11} THEN 30 ELSE 31

RECURSIVE DaysBeforeYear(_)
DaysBeforeYear(y) ==
    IF y <= FirstYear THEN 0 ELSE DaysBeforeYear(y - 1) + DaysInYear(y - 1)

RECURSIVE DaysBeforeMonth(_, _)
DaysBeforeMonth(y, m) ==
    IF m <= 1 THEN 0 ELSE DaysBeforeMonth(y, m - 1) + LastDayOfMonth(y, m - 1)

\* date(y, m, d) as a day number
Ymd(y, m, d) == DaysBeforeYear(y) + DaysBeforeMonth(y, m) + (d - 1)

\* first instant past the datetime range of the model
EndOfTime == DaysBeforeYear(LastYear + 1) * Day

InRange(t) == t >= 0 /\ t < EndOfTime

\* date.year, date.month, date.day of a day number inside the range
YearOfDay(n) ==
    CHOOSE y \in Years : DaysBeforeYear(y) <= n /\ n < DaysBeforeYear(y + 1)
MonthOfDay(n) ==
    LET y == YearOfDay(n)
        k == n - DaysBeforeYear(y)
    IN  CHOOSE m \in 1..12 :
            DaysBeforeMonth(y, m) <= k /\ k < DaysBeforeMonth(y, m) + LastDayOfMonth(y, m)
DomOfDay(n) ==
    LET y == YearOfDay(n)
    IN  n - DaysBeforeYear(y) - DaysBeforeMonth(y, MonthOfDay(n)) + 1

\* date.weekday(): Monday = 0; day 0 (2026-01-01) is a Thursday
WeekdayOfDay(n) == (n + 3) % 7

\* datetime.date(), time of day in seconds, datetime.weekday()
DateOf(t) == t \div Day
TimeOf(t) == t % Day
HourOf(t) == (t % Day) \div Hour
MinuteOf(t) == (t % Hour) \div Minute
WeekdayOf(t) == WeekdayOfDay(DateOf(t))

\* datetime.replace(second=0, microsecond=0)
TruncMinute(t) == t - (t % Minute)
\* datetime.replace(hour=h, minute=m) on an instant whose seconds are kept
ReplaceHM(t, h, m) == DateOf(t) * Day + h * Hour + m * Minute + (t % Minute)
\* datetime(d.year, d.month, d.day, tzinfo=...) : midnight of a date
Midnight(d) == d * Day

SetMin(S) == CHOOSE x \in S : \A y \in S : x <= y
SetMax(S) == CHOOSE x \in S : \A y \in S : x >= y

\* _add_months
AddMonths(year, month, months) ==
    LET total == (year * 12 + (month - 1)) + months
    IN  <<total \div 12, (total % 12) + 1>>

\* _week_start
WeekStart(d) == d - WeekdayOfDay(d)

\* ------------------------------------------------------------------------
\* Recurrence expander: class rrule.  A rule object is a record
\*   [freq, interval, dtstart, bymonth, byweekday, bymonthday, bysetpos,
\*    byhour, byminute]
\* where an absent selector list is the empty set and an absent byhour /
\* byminute is None.
\* ------------------------------------------------------------------------

\* rrule.__init__
MkRrule(freq, interval, dtstart, bymonth, byweekday, bymonthday, bysetpos, byhour, byminute) ==
    [freq |-> freq, interval |-> interval, dtstart |-> TruncMinute(dtstart),
     bymonth |-> bymonth, byweekday |-> byweekday, bymonthday |-> bymonthday,
     bysetpos |-> bysetpos, byhour |-> byhour, byminute |-> byminute]

\* rrule._time_for
TimeFor(rr, base) ==
    LET hour == IF rr.byhour # None THEN rr.byhour ELSE HourOf(base)
        minute == IF rr.byminute # None THEN rr.byminute ELSE MinuteOf(base)
    IN  DateOf(base) * Day + hour * Hour + minute * Minute

\* the loop "while candidate < target or (not inclusive and candidate ==
\* target): candidate += step" shared by the minutely, hourly and daily
\* expanders, by its result: the first candidate + k * step (k >= 0) that
\* fails the loop condition; a zero step never leaves the loop
StepLoopNotStrict(candidate, step, target, inclusive) ==
    IF candidate < target
    THEN IF step = 0 THEN Hang
         ELSE candidate + ((target - candidate + step - 1) \div step) * step
    ELSE candidate

StepLoop(candidate, step, target, inclusive) ==
    IF candidate < target \/ (~inclusive /\ candidate = target)
    THEN IF step = 0 THEN Hang
         ELSE LET gap == target - candidate
                  k == IF inclusive THEN (gap + step - 1) \div step
                       ELSE (gap \div step) + 1
              IN  candidate + k * step
    ELSE candidate

\* rrule._after_minutely
AfterMinutely(rr, target, inclusive) ==
    StepLoop(rr.dtstart, rr.interval * Minute, target, inclusive)

\* rrule._after_hourly
AfterHourly(rr, target, inclusive) ==
    StepLoop(rr.dtstart, rr.interval * Hour, target, inclusive)

\* second loop of _after_daily: advance by step until the weekday matches.
\* The weekdays met repeat after 7 iterations: a loop that has not matched by
\* then runs until candidate += step leaves the datetime range and raises
RECURSIVE WeekdayLoop(_, _, _, _)
WeekdayLoop(rr, candidate, step, n) ==
    IF rr.byweekday = {} \/ WeekdayOf(candidate) \in rr.byweekday THEN candidate
    ELSE IF step = 0 THEN Hang
    ELSE IF n >= 7 THEN RangeErr
    ELSE WeekdayLoop(rr, candidate + step, step, n + 1)

\* rrule._after_daily
AfterDaily(rr, target, inclusive) ==
    LET step == rr.interval * Day
        candidate == StepLoop(rr.dtstart, step, target, inclusive)
    IN  IF IsErr(candidate) THEN candidate
        ELSE WeekdayLoop(rr, candidate, step, 0)

\* rrule._weekly_candidates_for_week
WeeklyCandidatesForWeek(rr, week_start) ==
    LET weekdays == IF rr.byweekday # {} THEN rr.byweekday
                    ELSE {WeekdayOf(rr.dtstart)}
    IN  {TimeFor(rr, Midnight(week_start + wd)) : wd \in weekdays}

\* rrule._after_weekly
RECURSIVE AfterWeeklyLoop(_, _, _, _)
AfterWeeklyLoop(rr, target, inclusive, weeks) ==
    LET week_start == WeekStart(DateOf(rr.dtstart)) + 7 * rr.interval * weeks
        ok == {c \in WeeklyCandidatesForWeek(rr, week_start) :
                  c > target \/ (inclusive /\ c = target)}
    IN  IF ok # {} THEN SetMin(ok)
        ELSE IF rr.interval = 0 THEN Hang
        ELSE IF ~InRange(Midnight(week_start + 7 * rr.interval)) THEN RangeErr
        ELSE AfterWeeklyLoop(rr, target, inclusive, weeks + 1)

AfterWeekly(rr, target, inclusive) == AfterWeeklyLoop(rr, target, inclusive, 0)

\* the days of (year, month) whose weekday is in byweekday, in order
MonthMatches(rr, year, month) ==
    {Ymd(year, month, day) : day \in
        {d \in 1..LastDayOfMonth(year, month) :
            WeekdayOfDay(Ymd(year, month, d)) \in rr.byweekday}}

\* matches[pos] instead of matches[pos - 1]
NthMatchOffByOne(matches, pos) ==
    LET n == Cardinality(matches)
        k == IF pos > 0 THEN pos + 1 ELSE n + pos + 1
    IN  IF k < 1 \/ k > n THEN None
        ELSE CHOOSE d \in matches : Cardinality({e \in matches : e <= d}) = k

\* matches[idx] of _month_candidates: the pos-th match from the start
\* (pos > 0) or from the end (pos < 0); None for an IndexError
NthMatch(matches, pos) ==
    LET n == Cardinality(matches)
        k == IF pos > 0 THEN pos ELSE n + pos + 1
    IN  IF k < 1 \/ k > n THEN None
        ELSE CHOOSE d \in matches : Cardinality({e \in matches : e <= d}) = k

\* _month_candidates with a listed day beyond the month moved to its last day
MonthCandidatesClamped(rr, year, month) ==
    IF rr.bymonth # {} /\ month \notin rr.bymonth THEN {}
    ELSE IF month < 1 \/ month > 12 THEN {RangeErr}
    ELSE IF rr.bysetpos # {} /\ rr.byweekday # {}
    THEN LET matches == MonthMatches(rr, year, month)
             chosen == {NthMatch(matches, pos) : pos \in rr.bysetpos \ {0}} \ {None}
         IN  {TimeFor(rr, Midnight(d)) : d \in chosen}
    ELSE IF rr.bymonthday # {}
    THEN LET last_day == LastDayOfMonth(year, month)
             days == {IF day = 0 - 1 \/ day > last_day THEN last_day ELSE day :
                         day \in {x \in rr.bymonthday : x = 0 - 1 \/ 1 <= x}}
         IN  {TimeFor(rr, Midnight(Ymd(year, month, d))) : d \in days}
    ELSE LET day == DomOfDay(DateOf(rr.dtstart))
         IN  IF day > LastDayOfMonth(year, month) THEN {RangeErr}
             ELSE {TimeFor(rr, Midnight(Ymd(year, month, day)))}

\* rrule._month_candidates; {RangeErr} when a date constructor raises
MonthCandidates(rr, year, month) ==
    IF rr.bymonth # {} /\ month \notin rr.bymonth THEN {}
    ELSE IF month < 1 \/ month > 12 THEN {RangeErr}
    ELSE IF rr.bysetpos # {} /\ rr.byweekday # {}
    THEN LET matches == MonthMatches(rr, year, month)
             chosen == {NthMatch(matches, pos) : pos \in rr.bysetpos \ {0}} \ {None}
         IN  {TimeFor(rr, Midnight(d)) : d \in chosen}
    ELSE IF rr.bymonthday # {}
    THEN LET last_day == LastDayOfMonth(year, month)
             days == {IF day = 0 - 1 THEN last_day ELSE day :
                         day \in {x \in rr.bymonthday :
                                     x = 0 - 1 \/ (1 <= x /\ x <= last_day)}}
         IN  {TimeFor(rr, Midnight(Ymd(year, month, d))) : d \in days}
    ELSE LET day == DomOfDay(DateOf(rr.dtstart))
         IN  IF day > LastDayOfMonth(year, month) THEN {RangeErr}
             ELSE {TimeFor(rr, Midnight(Ymd(year, month, day)))}

\* rrule._after_monthly
RECURSIVE AfterMonthlyLoop(_, _, _, _)
AfterMonthlyLoop(rr, target, inclusive, months) ==
    LET ym == AddMonths(YearOfDay(DateOf(rr.dtstart)), MonthOfDay(DateOf(rr.dtstart)),
                        rr.interval * months)
    IN  IF ym[1] > LastYear THEN RangeErr
        ELSE LET cands == MonthCandidates(rr, ym[1], ym[2])
                 ok == {c \in cands : c > target \/ (inclusive /\ c = target)}
             IN  IF RangeErr \in cands THEN RangeErr
                 ELSE IF ok # {} THEN SetMin(ok)
                 ELSE IF rr.interval = 0 THEN Hang
                 ELSE AfterMonthlyLoop(rr, target, inclusive, months + 1)

AfterMonthly(rr, target, inclusive) == AfterMonthlyLoop(rr, target, inclusive, 0)

\* rrule._year_candidates
YearCandidates(rr, year) ==
    LET months == IF rr.bymonth # {} THEN rr.bymonth
                  ELSE {MonthOfDay(DateOf(rr.dtstart))}
    IN  UNION {MonthCandidates(rr, year, month) : month \in months}

\* rrule._after_yearly
RECURSIVE AfterYearlyLoop(_, _, _, _)
AfterYearlyLoop(rr, target, inclusive, years) ==
    LET year == YearOfDay(DateOf(rr.dtstart)) + rr.interval * years
    IN  IF year > LastYear THEN RangeErr
        ELSE LET cands == YearCandidates(rr, year)
                 ok == {c \in cands : c > target \/ (inclusive /\ c = target)}
             IN  IF RangeErr \in cands THEN RangeErr
                 ELSE IF ok # {} THEN SetMin(ok)
                 ELSE IF rr.interval = 0 THEN Hang
                 ELSE AfterYearlyLoop(rr, target, inclusive, years + 1)

AfterYearly(rr, target, inclusive) == AfterYearlyLoop(rr, target, inclusive, 0)

\* rrule.after
RruleAfter(rr, dt, inc) ==
    CASE rr.freq = "minutely" -> AfterMinutely(rr, dt, inc)
      [] rr.freq = "hourly" -> AfterHourly(rr, dt, inc)
      [] rr.freq = "daily" -> AfterDaily(rr, dt, inc)
      [] rr.freq = "weekly" -> AfterWeekly(rr, dt, inc)
      [] rr.freq = "monthly" -> AfterMonthly(rr, dt, inc)
      [] rr.freq = "yearly" -> AfterYearly(rr, dt, inc)

\* rruleset.after: the minimum over the member rules; a member call that
\* hangs or raises ends the evaluation
RrulesetAfter(rs, dt, inc) ==
    LET next_values == {RruleAfter(rr, dt, inc) : rr \in rs}
        candidates == {v \in next_values : v # None /\ ~IsErr(v)}
    IN  IF Hang \in next_values THEN Hang
        ELSE IF RangeErr \in next_values THEN RangeErr
        ELSE IF candidates # {} THEN SetMin(candidates) ELSE None

\* ------------------------------------------------------------------------
\* IR (src/recpyx/en.py).  A rule is a record
\*   [type, at, freq, interval, bymonth, byweekday, bymonthday, bysetpos,
\*    times, between_time, step, window_date, except_, weekend_shift]
\* Absent lists are empty sets; times are seconds since midnight; dates are
\* day numbers; an absent between_time, step or window field is None and
\* the absent freq of a one-shot rule is "none".
\* ------------------------------------------------------------------------

\* IRBetweenTime / absent between_time
NoBetween == [start |-> None, end |-> None]
\* IRStep / absent step
NoStep == [minutes |-> None, hours |-> None]
\* IRWindowDate()
NoWindow == [start |-> None, end |-> None, until |-> None]
\* IRExcept()
NoExcept == [weekdays |-> {}, dates |-> {}, holidays |-> FALSE]

\* IRRule(type="rrule", ...) with the dataclass defaults
IRRule(freq, interval, bymonth, byweekday, bymonthday, bysetpos, times, between_time, step) ==
    [type |-> "rrule", at |-> None, freq |-> freq, interval |-> interval,
     bymonth |-> bymonth, byweekday |-> byweekday, bymonthday |-> bymonthday,
     bysetpos |-> bysetpos, times |-> times, between_time |-> between_time,
     step |-> step, window_date |-> NoWindow, except_ |-> NoExcept,
     weekend_shift |-> "none"]

HasBetween(r) == r.between_time.start # None
HasStep(r) == r.step.minutes # None \/ r.step.hours # None

\* ------------------------------------------------------------------------
\* Occurrence engine (src/recpyx/engine.py)
\* ------------------------------------------------------------------------

\* the iteration budget of the probe loop: "for _ in range(500)"
MaxProbes == 500
\* the validator's default horizon in days: timedelta(days=366)
HorizonDays == 366

\* is_weekend
IsWeekend(d) == WeekdayOfDay(d) >= 5

\* next_business_day
RECURSIVE NextBusinessDay(_)
NextBusinessDay(d) == IF WeekdayOfDay(d) >= 5 THEN NextBusinessDay(d + 1) ELSE d

\* the loop of the next_monday branch of _apply_weekend_shift
RECURSIVE NextMonday(_)
NextMonday(d) == IF WeekdayOfDay(d) # 0 THEN NextMonday(d + 1) ELSE d

\* _combine_datetime
CombineDatetime(d, t) == d * Day + t

\* _window_datetimes: <<w_start, w_end>>
WindowDatetimes(w) ==
    LET start_dt == IF w.start # None THEN Midnight(w.start) ELSE None
        end_dt0 == IF w.end # None THEN CombineDatetime(w.end, 23 * Hour + 59 * Minute)
                   ELSE None
        until_dt == IF w.until # None THEN CombineDatetime(w.until, 23 * Hour + 59 * Minute)
                    ELSE None
        end_dt == IF w.until # None
                  THEN (IF end_dt0 = None THEN until_dt
                        ELSE IF end_dt0 <= until_dt THEN end_dt0 ELSE until_dt)
                  ELSE end_dt0
    IN  <<start_dt, end_dt>>

\* _apply_weekend_shift with next_business_day moving to the day after
ApplyWeekendShiftOneDay(dt, mode) ==
    IF mode = "none" THEN dt
    ELSE IF ~IsWeekend(DateOf(dt)) THEN dt
    ELSE IF mode = "next_monday" THEN CombineDatetime(NextMonday(DateOf(dt)), TimeOf(dt))
    ELSE IF mode = "next_business_day"
    THEN CombineDatetime(DateOf(dt) + 1, TimeOf(dt))
    ELSE dt

\* _apply_weekend_shift
ApplyWeekendShift(dt, mode) ==
    IF mode = "none" THEN dt
    ELSE IF ~IsWeekend(DateOf(dt)) THEN dt
    ELSE IF mode = "next_monday" THEN CombineDatetime(NextMonday(DateOf(dt)), TimeOf(dt))
    ELSE IF mode = "next_business_day"
    THEN CombineDatetime(NextBusinessDay(DateOf(dt)), TimeOf(dt))
    ELSE dt

\* _excluded: "excluded" (True), "ok" (False) or "unsupported" (raises the
\* public-holidays RuntimeError)
ExcludedIgnoringDates(dt, rule) ==
    IF rule.type = "rrule" /\ rule.freq = "hourly" /\ HasBetween(rule) /\ ~HasStep(rule)
       /\ ~(rule.between_time.start <= TimeOf(dt) /\ TimeOf(dt) <= rule.between_time.end)
    THEN "excluded"
    ELSE IF WeekdayOf(dt) \in rule.except_.weekdays THEN "excluded"
    ELSE IF rule.except_.holidays THEN "unsupported"
    ELSE "ok"

\* _excluded with the ends of the hourly filter left out
ExcludedStrictFilter(dt, rule) ==
    IF rule.type = "rrule" /\ rule.freq = "hourly" /\ HasBetween(rule) /\ ~HasStep(rule)
       /\ ~(rule.between_time.start < TimeOf(dt) /\ TimeOf(dt) < rule.between_time.end)
    THEN "excluded"
    ELSE IF WeekdayOf(dt) \in rule.except_.weekdays THEN "excluded"
    ELSE IF DateOf(dt) \in rule.except_.dates THEN "excluded"
    ELSE IF rule.except_.holidays THEN "unsupported"
    ELSE "ok"

\* _excluded without the public-holidays branch
ExcludedIgnoringHolidays(dt, rule) ==
    IF rule.type = "rrule" /\ rule.freq = "hourly" /\ HasBetween(rule) /\ ~HasStep(rule)
       /\ ~(rule.between_time.start <= TimeOf(dt) /\ TimeOf(dt) <= rule.between_time.end)
    THEN "excluded"
    ELSE IF WeekdayOf(dt) \in rule.except_.weekdays THEN "excluded"
    ELSE IF DateOf(dt) \in rule.except_.dates THEN "excluded"
    ELSE "ok"

Excluded(dt, rule) ==
    IF rule.type = "rrule" /\ rule.freq = "hourly" /\ HasBetween(rule) /\ ~HasStep(rule)
       /\ ~(rule.between_time.start <= TimeOf(dt) /\ TimeOf(dt) <= rule.between_time.end)
    THEN "excluded"
    ELSE IF WeekdayOf(dt) \in rule.except_.weekdays THEN "excluded"
    ELSE IF DateOf(dt) \in rule.except_.dates THEN "excluded"
    ELSE IF rule.except_.holidays THEN "unsupported"
    ELSE "ok"

\* _build_rruleset with the rrule of a listed time left at the time of the anchor
BuildRrulesetAtAnchorTime(rule, now, w_start) ==
    LET dtstart0 == TruncMinute(IF w_start # None THEN w_start ELSE now)
        d0 == DateOf(dtstart0)
        dtstart ==
            IF rule.freq \in {"monthly", "yearly"} /\ rule.bysetpos # {} /\ rule.byweekday # {}
            THEN IF rule.freq = "monthly"
                 THEN Midnight(Ymd(YearOfDay(d0), MonthOfDay(d0), 1))
                 ELSE Midnight(Ymd(YearOfDay(d0), 1, 1))
            ELSE dtstart0
        add_rr(dt0, hour, minute) ==
            MkRrule(rule.freq, rule.interval, dt0, rule.bymonth, rule.byweekday,
                    rule.bymonthday, rule.bysetpos, hour, minute)
    IN  IF HasStep(rule) /\ HasBetween(rule) /\ rule.freq = "daily"
        THEN {add_rr(dtstart, None, None)}
        ELSE IF rule.times # {}
        THEN {add_rr(dtstart, None, None) : t \in rule.times}
        ELSE {add_rr(dtstart, None, None)}

\* _build_rruleset: the set of rrule objects of the rule
BuildRruleset(rule, now, w_start) ==
    LET dtstart0 == TruncMinute(IF w_start # None THEN w_start ELSE now)
        d0 == DateOf(dtstart0)
        dtstart ==
            IF rule.freq \in {"monthly", "yearly"} /\ rule.bysetpos # {} /\ rule.byweekday # {}
            THEN IF rule.freq = "monthly"
                 THEN Midnight(Ymd(YearOfDay(d0), MonthOfDay(d0), 1))
                 ELSE Midnight(Ymd(YearOfDay(d0), 1, 1))
            ELSE dtstart0
        add_rr(dt0, hour, minute) ==
            MkRrule(rule.freq, rule.interval, dt0, rule.bymonth, rule.byweekday,
                    rule.bymonthday, rule.bysetpos, hour, minute)
    IN  IF HasStep(rule) /\ HasBetween(rule) /\ rule.freq = "daily"
        THEN {add_rr(dtstart, None, None)}
        ELSE IF rule.times # {}
        THEN {add_rr(ReplaceHM(dtstart, t \div Hour, (t % Hour) \div Minute),
                     t \div Hour, (t % Hour) \div Minute) : t \in rule.times}
        ELSE {add_rr(dtstart, None, None)}

\* _step_to_timedelta (a step without hours and minutes raises)
StepToTimedelta(step) ==
    IF step.hours # None THEN step.hours * Hour
    ELSE IF step.minutes # None THEN step.minutes * Minute
    ELSE RangeErr

\* the while loop of _expand_step_within_day
RECURSIVE ExpandLoop(_, _, _, _)
ExpandLoop(cur, end_dt, step, after_dt) ==
    IF cur <= end_dt
    THEN IF cur > after_dt THEN cur
         ELSE IF step = 0 THEN Hang
         ELSE ExpandLoop(cur + step, end_dt, step, after_dt)
    ELSE None

\* _expand_step_within_day
ExpandStepWithinDay(base_dt, rule, after_dt) ==
    LET step == StepToTimedelta(rule.step)
        d == DateOf(base_dt)
        cur == CombineDatetime(d, rule.between_time.start)
        end_dt == CombineDatetime(d, rule.between_time.end)
    IN  ExpandLoop(cur, end_dt, step, after_dt)

\* "if w_start and dt < w_start"
BeforeWindowIgnored(dt, w_start) == FALSE

BeforeWindow(dt, w_start) == w_start # None /\ dt < w_start

\* "if w_end and dt > w_end"
AfterWindow(dt, w_end) == w_end # None /\ dt > w_end

\* One iteration of the probe loop of next_occurrence for rule r, from the
\* cursor probe.  The outcome is [k, v]:
\*   "accept" v = the candidate appended;  "retry" v = the new probe;
\*   "break"  the loop is left without a candidate;
\*   "hang" / "range_error" / "unsupported" the call does not return / raises
\* The iteration is written in the order of the code, one operator per stage.

Outcome(k, v) == [k |-> k, v |-> v]

\* an excluded candidate retried from the day before it
ProbeExcludedDayBefore(dt, ex) ==
    IF ex = "unsupported" THEN Outcome("unsupported", None)
    ELSE IF ex = "excluded" THEN Outcome("retry", dt - Day)
    ELSE Outcome("accept", dt)

\* "if _excluded(dt, r, tzinfo): probe = dt + 1s; continue" / "candidates.append(dt); break"
ProbeExcluded(dt, ex) ==
    IF ex = "unsupported" THEN Outcome("unsupported", None)
    ELSE IF ex = "excluded" THEN Outcome("retry", dt + 1)
    ELSE Outcome("accept", dt)

\* the window tests on the shifted candidate dt
ProbeWindow(r, w_start, w_end, dt) ==
    IF BeforeWindow(dt, w_start) THEN Outcome("retry", w_start - 1)
    ELSE IF AfterWindow(dt, w_end) THEN Outcome("break", None)
    ELSE ProbeExcluded(dt, Excluded(dt, r))

\* "dt2 = _expand_step_within_day(...)": no slot left moves the probe to the
\* next day; then "dt = _apply_weekend_shift(dt, r.weekend_shift)"
ProbeShift(r, w_start, w_end, dt1, dt2) ==
    IF dt2 = Hang THEN Outcome("hang", None)
    ELSE IF dt2 = RangeErr THEN Outcome("range_error", None)
    ELSE IF dt2 = None THEN Outcome("retry", Midnight(DateOf(dt1) + 1))
    ELSE ProbeWindow(r, w_start, w_end, ApplyWeekendShift(dt2, r.weekend_shift))

\* the step-within-day branch on the base candidate dt1
ProbeExpand(r, w_start, w_end, probe, dt1) ==
    ProbeShift(r, w_start, w_end, dt1,
               IF HasStep(r) /\ HasBetween(r) THEN ExpandStepWithinDay(dt1, r, probe)
               ELSE dt1)

\* "if base_today is not None and base_today.date() == probe.date(): dt = base_today"
ProbeToday(probe, base, base_today) ==
    IF base_today = Hang THEN Outcome("hang", None)
    ELSE IF base_today = RangeErr THEN Outcome("range_error", None)
    ELSE IF base_today # None /\ DateOf(base_today) = DateOf(probe)
    THEN Outcome("base", base_today)
    ELSE Outcome("base", base)

\* "base = rs.after(probe, inc=False)" and, for a step rule whose base is on
\* another date than the probe, "base_today = rs.after(day_probe, inc=False)"
ProbeBase(r, probe, rs, base) ==
    IF base = Hang THEN Outcome("hang", None)
    ELSE IF base = RangeErr THEN Outcome("range_error", None)
    ELSE IF base = None THEN Outcome("break", None)
    ELSE ProbeToday(probe, base,
                    IF HasStep(r) /\ HasBetween(r) /\ DateOf(base) # DateOf(probe)
                    THEN RrulesetAfter(rs, Midnight(DateOf(probe)) - 1, FALSE)
                    ELSE None)

ProbeRuleset(r, probe, rs) == ProbeBase(r, probe, rs, RrulesetAfter(rs, probe, FALSE))

\* first half of an iteration: the candidate asked of the expander, "base" v
ProbeAsk(r, now, probe) ==
    ProbeRuleset(r, probe, BuildRruleset(r, now, WindowDatetimes(r.window_date)[1]))

\* second half of an iteration: expansion within the day, weekend shift,
\* window and exclusion of the candidate dt1
ProbeFilter(r, probe, dt1) ==
    ProbeExpand(r, WindowDatetimes(r.window_date)[1], WindowDatetimes(r.window_date)[2],
                probe, dt1)

\* a whole iteration
ProbeIter(r, now, probe) ==
    LET a == ProbeAsk(r, now, probe)
    IN  IF a.k = "base" THEN ProbeFilter(r, probe, a.v) ELSE a

\* the one-shot branch without the test "dt > now"
OneShotIterPast(r, now) ==
    LET ex == Excluded(r.at, r)
    IN  IF ex = "unsupported" THEN [k |-> "unsupported", v |-> None]
        ELSE IF ex = "excluded" THEN [k |-> "accept", v |-> None]
        ELSE [k |-> "accept", v |-> r.at]

\* the one-shot branch of next_occurrence: the candidate appended, None when
\* nothing is appended, or "unsupported"
OneShotIter(r, now) ==
    IF r.at > now
    THEN LET ex == Excluded(r.at, r)
         IN  IF ex = "unsupported" THEN [k |-> "unsupported", v |-> None]
             ELSE IF ex = "excluded" THEN [k |-> "accept", v |-> None]
             ELSE [k |-> "accept", v |-> r.at]
    ELSE [k |-> "accept", v |-> None]

\* ------------------------------------------------------------------------
\* State
\* ------------------------------------------------------------------------
VARIABLES
    arg,       \* the argument now of the calls (every call gets the same)
    calls,     \* the calls completed before the one under way: op and outcome
    text,      \* the text of the call, when the call is followed from its text
    lang,      \* parser.parse_schedule: the language detect_language gave
    tried,     \* parser.parse_schedule: the parsers invoked, each with its outcome
    op,        \* the API call under way: "next_occurrence" or "validate"
    sched,     \* sched.rules: the sequence of IR rules of the parsed text
    now,       \* the reference instant of the call
    pc,        \* position in the code
    vi,        \* validate: index of the rule of "for r in sched.rules"
    i,         \* next_occurrence: index of the rule of "for r in sched.rules"
    probe,     \* the probe cursor of the current rule
    iter,      \* iterations of "for _ in range(500)" completed for the rule
    base,      \* the candidate the expander gave in the current iteration
    contrib,   \* per rule processed: the candidate it appended, or None
    result,    \* outcome of the (last) next_occurrence call
    vresult,   \* outcome of validate
    members,   \* rruleset._rules: the rrule objects of the set after() is called on
    target,    \* rruleset.after: the argument dt
    inclusive, \* rruleset.after: the argument inc
    next_values, \* rruleset.after: the values of the members asked so far
    answer     \* rruleset.after: the value returned

\* the variables of a direct call of rruleset.after
expander == <<members, target, inclusive, next_values, answer>>

vars == <<arg, calls, text, lang, tried, op, sched, now, pc, vi, i, probe, iter, base, contrib,
          result, vresult, expander>>

Pending == [k |-> "pending", v |-> None]

\* the iterations counted so far carried into the next loop
KeptBudget(n) == n

\* "for _ in range(500)": the count of a probe loop starts at 0
FreshBudget(n) == 0

\* "candidates: List[datetime] = []" at the start of a call of next_occurrence
FreshCandidates(c) == <<>>

\* "candidates": the instants appended so far
Candidates(c) == {c[j] : j \in 1..Len(c)} \ {None}

\* the first instant appended instead of the least
FirstCandidate(c) == c[SetMin({j \in 1..Len(c) : c[j] # None})]

\* "min(candidates)"
MinCandidate(c) == SetMin(Candidates(c))

\* the rule at index j carrying the exceptions of every rule of the schedule
LeakyRule(rules, j) ==
    [rules[j] EXCEPT !.except_ =
        [weekdays |-> UNION {rules[k].except_.weekdays : k \in 1..Len(rules)},
         dates |-> UNION {rules[k].except_.dates : k \in 1..Len(rules)},
         holidays |-> \E k \in 1..Len(rules) : rules[k].except_.holidays]]

\* the rule r of "for r in sched.rules" at index j
CurrentRule(rules, j) == rules[j]

\* ------------------------------------------------------------------------
\* parse_rule (src/recpyx/en.py): the IR each accepted rule shape yields
\* ------------------------------------------------------------------------

\* time(h, mi) as seconds since midnight
HM(h, mi) == h * Hour + mi * Minute

\* what the suffix loop of parse_rule collects: weekend_shift, window, ex
Suffix(shift, window, ex) == [weekend_shift |-> shift, window |-> window, ex |-> ex]

\* the common tail of every rrule branch of parse_rule:
\*   r.window_date = window if (window.start or window.end or window.until) else None
\*   r.except_ = ex ; r.weekend_shift = weekend_shift
\* and of the one-shot branch, which keeps its own window [d, d]
WithSuffix(r, sfx) ==
    [r EXCEPT !.window_date = IF r.type = "oneshot" THEN r.window_date ELSE sfx.window,
              !.except_ = sfx.ex,
              !.weekend_shift = sfx.weekend_shift]

\* "YYYY-MM-DD at TIME"
OneShot(d, t) ==
    [IRRule("none", 1, {}, {}, {}, {}, {}, NoBetween, NoStep)
        EXCEPT !.type = "oneshot", !.at = CombineDatetime(d, t),
               !.window_date = [start |-> d, end |-> d, until |-> None]]

\* "every year on MM-DD at T"
YearlyDate(mm, dd, at) ==
    IRRule("yearly", 1, {mm}, {}, {dd}, {}, {at}, NoBetween, NoStep)

\* "every day|weekday every N hours|minutes between t1 and t2"
StepWithinDay(days, n, unit, t1, t2) ==
    IRRule("daily", 1, {}, IF days = "weekday" THEN {0, 1, 2, 3, 4} ELSE {}, {}, {}, {},
           [start |-> t1, end |-> t2],
           IF unit = "hours" THEN [minutes |-> None, hours |-> n]
           ELSE [minutes |-> n, hours |-> None])

\* "every N hours between t1 and t2" and "every hour between t1 and t2" (N = 1)
HourlyBetween(n, t1, t2) ==
    IRRule("hourly", n, {}, {}, {}, {}, {}, [start |-> t1, end |-> t2], NoStep)

\* "every N minutes|hours|days|weeks [on <weekdays>] [at <times>]"
EveryN(n, unit, bywd, times) ==
    IRRule(CASE unit = "minutes" -> "minutely" [] unit = "hours" -> "hourly"
             [] unit = "days" -> "daily" [] unit = "weeks" -> "weekly",
           n, {}, bywd, {}, {}, times, NoBetween, NoStep)

\* "every weekday at <times>"
WeekdayAt(times) == IRRule("daily", 1, {}, {0, 1, 2, 3, 4}, {}, {}, times, NoBetween, NoStep)

\* "every day at <times>"
DayAt(times) == IRRule("daily", 1, {}, {}, {}, {}, times, NoBetween, NoStep)

\* "every <weekday list> at <times>"
WeekdaysAt(wds, times) == IRRule("weekly", 1, {}, wds, {}, {}, times, NoBetween, NoStep)

\* "every year on the <ord> <weekday> of <month> at T"
YearlyNth(pos, wd, mm, at) ==
    IRRule("yearly", 1, {mm}, {wd}, {}, {pos}, {at}, NoBetween, NoStep)

\* "every month on the last day at T" (nums = {-1}) and
\* "every month on the <day numerals> at T"
MonthlyDays(nums, at) == IRRule("monthly", 1, {}, {}, nums, {}, {at}, NoBetween, NoStep)

\* "every month on the <ord> <weekday> at T"
MonthlyNth(pos, wd, at) == IRRule("monthly", 1, {}, {wd}, {}, {pos}, {at}, NoBetween, NoStep)

\* ------------------------------------------------------------------------
\* Inputs of the calls explored: rule texts of the shapes of the test suite
\* (src/tests/test_engine.py), around its reference instant 2026-03-12T12:00
\* ------------------------------------------------------------------------

\* date(2026, m, d)
D(m, d) == Ymd(FirstYear, m, d)

Range(f) == {f[x] : x \in DOMAIN f}

\* rule bodies (the text left after the suffixes are stripped)
Bodies == <<
    DayAt({HM(10, 0)}),                                \* every day at 10:00
    DayAt({HM(9, 0), HM(18, 0)}),                      \* every day at 09:00 and 18:00
    WeekdayAt({HM(9, 0)}),                             \* every weekday at 09:00
    WeekdaysAt({0, 3}, {HM(18, 0)}),                   \* every monday and thursday at 18:00
    WeekdaysAt({4, 5}, {HM(10, 0)}),                   \* every friday and saturday at 10:00
    WeekdaysAt({6}, {HM(10, 0)}),                      \* every sunday at 10AM
    EveryN(2, "days", {}, {HM(10, 0)}),                \* every 2 days at 10:00
    EveryN(3, "weeks", {0}, {HM(8, 30)}),              \* every 3 weeks on monday at 08:30
    EveryN(15, "minutes", {}, {}),                     \* every 15 minutes
    EveryN(2, "minutes", {}, {}),                      \* every 2 minutes
    EveryN(6, "hours", {}, {}),                        \* every 6 hours
    EveryN(0, "minutes", {}, {}),                      \* every 0 minutes
    EveryN(0, "weeks", {0}, {HM(8, 30)}),              \* every 0 weeks on monday at 08:30
    EveryN(7, "days", {0}, {}),                        \* every 7 days on monday
    HourlyBetween(2, HM(9, 0), HM(17, 0)),             \* every 2 hours between 09:00 and 17:00
    HourlyBetween(5, HM(9, 0), HM(17, 0)),             \* every 5 hours between 09:00 and 17:00
    HourlyBetween(1, HM(18, 0), HM(23, 0)),            \* every hour between 18:00 and 23:00
    StepWithinDay("day", 2, "hours", HM(9, 0), HM(17, 0)),
                                  \* every day every 2 hours between 09:00 and 17:00
    StepWithinDay("weekday", 30, "minutes", HM(12, 0), HM(14, 0)),
                                  \* every weekday every 30 minutes between 12:00 and 14:00
    StepWithinDay("day", 2, "hours", HM(0, 0), HM(17, 0)),
                                  \* every day every 2 hours between 00:00 and 17:00
    StepWithinDay("day", 0, "hours", HM(9, 0), HM(17, 0)),
                                  \* every day every 0 hours between 09:00 and 17:00
    MonthlyDays({1}, HM(9, 0)),                        \* every month on the 1st at 09:00
    MonthlyDays({14, 15}, HM(8, 0)),                   \* every month on the 14th and 15th at 08:00
    MonthlyDays({31}, HM(20, 0)),                      \* every month on the 31st at 20:00
    MonthlyDays({0 - 1}, HM(20, 0)),                   \* every month on the last day at 20:00
    MonthlyNth(1, 0, HM(9, 0)),                        \* every month on the first monday at 09:00
    MonthlyNth(2, 5, HM(18, 0)),                       \* every month on the second saturday at 18:00
    MonthlyNth(5, 0, HM(9, 0)),                        \* every month on the fifth monday at 09:00
    YearlyDate(3, 14, HM(10, 0)),                      \* every year on 03-14 at 10:00
    YearlyDate(3, 1, HM(10, 0)),                       \* every year on 03-01 at 10:00
    YearlyDate(2, 30, HM(10, 0)),                      \* every year on 02-30 at 10:00
    YearlyNth(0 - 1, 6, 10, HM(23, 0)),   \* every year on the last sunday of october at 23:00
    OneShot(D(3, 13), HM(2, 0)),                       \* 2026-03-13 at 2:00
    OneShot(D(3, 14), HM(10, 0)),                      \* 2026-03-14 at 10:00
    OneShot(D(3, 12), HM(13, 0))                       \* 2026-03-12 at 13:00
>>

Win(a, b, u) == [start |-> a, end |-> b, until |-> u]
Ex(wds, dates, hol) == [weekdays |-> wds, dates |-> dates, holidays |-> hol]

\* trailing clauses
Suffixes == <<
    Suffix("none", NoWindow, NoExcept),
    Suffix("none", NoWindow, Ex({3}, {}, FALSE)),               \* except thursday
    Suffix("none", NoWindow, Ex({4}, {}, FALSE)),               \* except friday
    Suffix("none", NoWindow, Ex({3, 4}, {}, FALSE)),            \* except thursday friday
    Suffix("none", NoWindow, Ex({}, {D(3, 13)}, FALSE)),        \* except 2026-03-13
    Suffix("none", NoWindow, Ex({}, {D(3, 13), D(3, 14)}, FALSE)),
                                                    \* except 2026-03-13, 2026-03-14
    Suffix("none", Win(None, None, D(3, 13)), NoExcept),        \* until 2026-03-13
    Suffix("none", Win(None, None, D(3, 13)), Ex({}, {D(3, 13)}, FALSE)),
                                                    \* until 2026-03-13 except 2026-03-13
    Suffix("none", Win(D(3, 12), D(3, 12), None), Ex({}, {D(3, 12)}, FALSE)),
                          \* between 2026-03-12 and 2026-03-12 except 2026-03-12
    Suffix("none", Win(D(3, 10), D(3, 20), None), NoExcept),
                          \* between 2026-03-10 and 2026-03-20
    Suffix("none", Win(D(3, 20), D(3, 10), None), NoExcept),
                          \* between 2026-03-20 and 2026-03-10
    Suffix("next_monday", NoWindow, NoExcept),                  \* if weekend then next monday
    Suffix("next_business_day", NoWindow, NoExcept),      \* if weekend then next business day
    Suffix("next_monday", Win(D(3, 15), D(3, 31), None), NoExcept),
                          \* between 2026-03-15 and 2026-03-31 if weekend then next monday
    Suffix("next_monday", NoWindow, Ex({}, {D(3, 16)}, FALSE)),
                          \* except 2026-03-16 if weekend then next monday
    Suffix("none", NoWindow, Ex({}, {}, TRUE)),                 \* except public holidays
    Suffix("none", Win(D(3, 20), D(3, 25), D(3, 10)), NoExcept),
                          \* between 2026-03-20 and 2026-03-25 until 2026-03-10
    Suffix("none", NoWindow, Ex({}, {D(3, 30)}, FALSE))         \* except 2026-03-30
>>

\* the rules of the schedules made of one rule
SingleRules == {WithSuffix(Bodies[b], Suffixes[x]) : b \in DOMAIN Bodies, x \in DOMAIN Suffixes}

\* the rules composed schedules are made of
ComposedRules == <<
    WithSuffix(DayAt({HM(18, 0)}), Suffix("none", NoWindow, Ex({3}, {}, FALSE))),
                                                    \* every day at 18:00 except thursday
    WithSuffix(OneShot(D(3, 13), HM(2, 0)), Suffix("none", NoWindow, NoExcept)),
                                                    \* 2026-03-13 at 02:00
    WithSuffix(DayAt({HM(9, 0)}), Suffix("none", NoWindow, NoExcept)),
                                                    \* every day at 09:00
    WithSuffix(DayAt({HM(10, 0)}),
               Suffix("none", Win(None, None, D(3, 13)), Ex({}, {D(3, 13)}, FALSE))),
                          \* every day at 10:00 until 2026-03-13 except 2026-03-13
    WithSuffix(WeekdaysAt({5}, {HM(10, 30)}), Suffix("next_monday", NoWindow, NoExcept)),
                          \* every saturday at 10:30 if weekend then next monday
    WithSuffix(DayAt({HM(10, 0)}), Suffix("none", Win(D(3, 20), D(3, 10), None), NoExcept)),
                          \* every day at 10:00 between 2026-03-20 and 2026-03-10
    WithSuffix(EveryN(7, "days", {0}, {}), Suffix("none", NoWindow, NoExcept))
                          \* every 7 days on monday
>>

RECURSIVE SeqsOfLen(_, _)
SeqsOfLen(S, n) ==
    IF n = 0 THEN {<<>>}
    ELSE {Append(q, x) : q \in SeqsOfLen(S, n - 1), x \in S}

\* sched.rules of the texts explored
Schedules ==
    {<<r>> : r \in SingleRules}
    \cup UNION {SeqsOfLen(Range(ComposedRules), n) : n \in 2..MaxRules}

\* the reference instants explored
Nows == {
    CombineDatetime(D(3, 12), HM(12, 0)),        \* Thursday 2026-03-12T12:00:00
    CombineDatetime(D(3, 12), HM(12, 0)) + 30,   \* Thursday 2026-03-12T12:00:30
    CombineDatetime(D(3, 12), HM(18, 0)),        \* Thursday 2026-03-12T18:00:00
    CombineDatetime(D(3, 13), HM(20, 0)),        \* Friday   2026-03-13T20:00:00
    CombineDatetime(D(3, 15), HM(10, 0))         \* Sunday   2026-03-15T10:00:00
}

\* ------------------------------------------------------------------------
\* Rule texts (src/recpyx/en.py, src/fr_impl.py, src/recpyx/parser.py)
\*
\* A text is the sequence of its tokens: the words between white space,
\* with a comma as a token of its own.  A token is a record: a word
\* (k = "w", s the lower-case word), a numeral (k = "num", a its value), a
\* date YYYY-MM-DD (k = "date", a the day number), MM-DD (k = "md"), a time
\* HH:MM (k = "clock"), a French time such as 10h or 10h30 (k = "h", b = None
\* without minutes), a 12-hour time such as 10AM (k = "ampm", s "am" or
\* "pm"), a numeral with a suffix such as 1er or 1st (k = "ord").  The texts
\* carry no zone suffix.
\* ------------------------------------------------------------------------

Tok(k, s, a, b) == [k |-> k, s |-> s, a |-> a, b |-> b]
W(s) == Tok("w", s, 0, 0)
Comma == Tok(",", "", 0, 0)
Num(n) == Tok("num", "", n, 0)
DateTok(d) == Tok("date", "", d, 0)
MonthDay(mm, dd) == Tok("md", "", mm, dd)
Clock(h, m) == Tok("clock", "", h, m)
ClockH(h, m) == Tok("h", "", h, m)
ClockAP(h, ap) == Tok("ampm", ap, h, None)
Ord(n, sfx) == Tok("ord", sfx, n, 0)

\* WEEKDAY_MAP and WEEKDAYS
WEEKDAY_MAP ==
    [monday |-> 0, tuesday |-> 1, wednesday |-> 2, thursday |-> 3,
     friday |-> 4, saturday |-> 5, sunday |-> 6]
WEEKDAYS == DOMAIN WEEKDAY_MAP

\* ORDINAL, the words of it
ORDINAL == [first |-> 1, second |-> 2, third |-> 3, fourth |-> 4, fifth |-> 5, last |-> 0 - 1]

\* month_map of the yearly branch of parse_rule
MonthNumber ==
    [january |-> 1, february |-> 2, march |-> 3, april |-> 4, may |-> 5, june |-> 6,
     july |-> 7, august |-> 8, september |-> 9, october |-> 10, november |-> 11,
     december |-> 12]

\* a ValueError of parse_time
Invalid == None

\* parse_time of the text of one token
ParseTime(tok) ==
    CASE tok.k = "clock" ->
            IF tok.a \in 0..23 /\ tok.b \in 0..59 THEN HM(tok.a, tok.b) ELSE Invalid
      [] tok.k = "num" ->
            IF tok.a \in 0..23 THEN HM(tok.a, 0) ELSE Invalid
      [] tok.k = "ampm" ->
            IF tok.a \in 1..12
            THEN HM((IF tok.a = 12 THEN 0 ELSE tok.a) + (IF tok.s = "pm" THEN 12 ELSE 0), 0)
            ELSE Invalid
      [] OTHER -> Invalid

\* parse_time of a piece of text: one time token, anything else is invalid
ParseTimeOf(toks) == IF Len(toks) = 1 THEN ParseTime(toks[1]) ELSE Invalid

\* the chunks of an at-part: at_part.replace(",", " ").split() without "and"
Chunks(toks) == {toks[n] : n \in {m \in 1..Len(toks) : toks[m] \notin {Comma, W("and")}}}

\* [parse_time(c) for c in chunks]: the times, or {Invalid} when one raises
ParseTimes(toks) ==
    IF \E c \in Chunks(toks) : ParseTime(c) = Invalid THEN {Invalid}
    ELSE {ParseTime(c) : c \in Chunks(toks)}

\* parse_weekday_list, as indices
ParseWeekdayList(toks) ==
    {WEEKDAY_MAP[toks[n].s] : n \in {m \in 1..Len(toks) : toks[m].k = "w" /\ toks[m].s \in WEEKDAYS}}

\* apply_except of parse_rule
ApplyExcept(ex_text, ex) ==
    IF ex_text \in {<<W("on"), W("public"), W("holidays")>>, <<W("public"), W("holidays")>>}
    THEN [ex EXCEPT !.holidays = TRUE]
    ELSE [ex EXCEPT
            !.weekdays = @ \cup ParseWeekdayList(ex_text),
            !.dates = @ \cup {ex_text[n].a : n \in {m \in 1..Len(ex_text) : ex_text[m].k = "date"}}]

\* the last n tokens of a text, and the text without them
LastToks(toks, n) == SubSeq(toks, Len(toks) - n + 1, Len(toks))
DropLast(toks, n) == SubSeq(toks, 1, Len(toks) - n)

\* the places of word w in a text that have a token before and after them
Inner(toks, w) == {n \in 2..(Len(toks) - 1) : toks[n] = W(w)}

\* suffix loop of parse_rule, "if weekend then next ..."
StripShift(st) ==
    IF Len(st.toks) > 5
       /\ LastToks(st.toks, 5) = <<W("if"), W("weekend"), W("then"), W("next"), W("monday")>>
    THEN [st EXCEPT !.toks = DropLast(@, 5), !.shift = "next_monday"]
    ELSE IF Len(st.toks) > 6
       /\ LastToks(st.toks, 6) = <<W("if"), W("weekend"), W("then"), W("next"), W("business"), W("day")>>
    THEN [st EXCEPT !.toks = DropLast(@, 6), !.shift = "next_business_day"]
    ELSE st

\* suffix loop of parse_rule, "between D and D"
StripBetween(st) ==
    IF Len(st.toks) > 4
       /\ LastToks(st.toks, 4)[1] = W("between") /\ LastToks(st.toks, 4)[2].k = "date"
       /\ LastToks(st.toks, 4)[3] = W("and") /\ LastToks(st.toks, 4)[4].k = "date"
    THEN [st EXCEPT !.toks = DropLast(@, 4),
                    !.window.start = LastToks(st.toks, 4)[2].a,
                    !.window.end = LastToks(st.toks, 4)[4].a]
    ELSE st

\* suffix loop of parse_rule, "until D"
StripUntil(st) ==
    IF Len(st.toks) > 2
       /\ LastToks(st.toks, 2)[1] = W("until") /\ LastToks(st.toks, 2)[2].k = "date"
    THEN [st EXCEPT !.toks = DropLast(@, 2), !.window.until = LastToks(st.toks, 2)[2].a]
    ELSE st

\* suffix loop of parse_rule, "except ..." from the first "except" to the
\* end, left alone when an " at " comes after it
StripExcept(st) ==
    IF Inner(st.toks, "except") = {} THEN st
    ELSE LET j == SetMin(Inner(st.toks, "except"))
             ex_text == SubSeq(st.toks, j + 1, Len(st.toks))
         IN  IF Inner(ex_text, "at") # {} THEN st
             ELSE [st EXCEPT !.toks = SubSeq(@, 1, j - 1), !.ex = ApplyExcept(ex_text, @)]

\* the one element of a set of one element: The({F(x) : x \in {e}}) is F(e)
\* with e evaluated once
The(S) == CHOOSE x \in S : TRUE

\* one turn of "while True" of parse_rule: the four suffixes in their order
StripOnce(st) ==
    The({StripExcept(c) : c \in {StripUntil(b) : b \in {StripBetween(a) : a \in {StripShift(st)}}}})

\* "strip suffixes in ANY order (loop until nothing changes)"
RECURSIVE StripSuffixes(_)
StripSuffixes(st) == The({IF n = st THEN st ELSE StripSuffixes(n) : n \in {StripOnce(st)}})

\* the places of an "except" that an " at " follows, one token or more between
MidPlaces(toks) == {j \in Inner(toks, "except") : \E k \in Inner(toks, "at") : k >= j + 2}

\* "mid-except" of parse_rule: "... except XXX at ..."
MidExcept(st) ==
    IF MidPlaces(st.toks) = {} THEN st
    ELSE LET j == SetMin(MidPlaces(st.toks))
             k == SetMin({n \in Inner(st.toks, "at") : n >= j + 2})
         IN  [st EXCEPT !.toks = SubSeq(@, 1, j - 1) \o <<W("at")>> \o SubSeq(@, k + 1, Len(@)),
                        !.ex = ApplyExcept(SubSeq(st.toks, j + 1, k - 1), @)]

\* the first " at " at place from or later, 0 when there is none
FirstAt(toks, from) ==
    IF {n \in Inner(toks, "at") : n >= from} = {} THEN 0
    ELSE SetMin({n \in Inner(toks, "at") : n >= from})

\* the first " and " at place from or later, 0 when there is none
FirstAnd(toks, from) ==
    IF {n \in Inner(toks, "and") : n >= from} = {} THEN 0
    ELSE SetMin({n \in Inner(toks, "and") : n >= from})

\* the rest of a text from place n
From(toks, n) == SubSeq(toks, n, Len(toks))

\* a text starts with the given words
StartsWith(toks, words) ==
    Len(toks) >= Len(words) /\ \A n \in 1..Len(words) : toks[n] = W(words[n])

\* a rule that parsed, and the ValueError of a branch
Parsed(r, st) == <<WithSuffix(r, Suffix(st.shift, st.window, st.ex))>>
ValueError == <<>>

\* the rule of a branch with times: ValueError when a time is invalid
WithTimes(times, r, st) == IF Invalid \in times THEN ValueError ELSE Parsed(r, st)

\* the 1- and 2-digit numerals re.findall(r"(\d{1,2})(?:st|nd|rd|th)?") finds
\* in the text of a token
DigitsOf(tok) ==
    CASE tok.k \in {"num", "ord", "ampm"} -> {tok.a}
      [] tok.k \in {"clock", "md"} -> {tok.a, tok.b}
      [] tok.k = "h" -> {tok.a} \cup ({tok.b} \ {None})
      [] tok.k = "date" ->
            {YearOfDay(tok.a) \div 100, YearOfDay(tok.a) % 100, MonthOfDay(tok.a), DomOfDay(tok.a)}
      [] OTHER -> {}

Digits(toks) == UNION {DigitsOf(toks[n]) : n \in 1..Len(toks)}

\* parse_rule, "oneshot: YYYY-MM-DD at TIME"
IsOneShotText(s) == Len(s) >= 3 /\ s[1].k = "date" /\ s[2] = W("at")
OneShotText(st) ==
    LET t == ParseTimeOf(From(st.toks, 3))
    IN  WithTimes({t}, OneShot(st.toks[1].a, t), st)

\* parse_rule, "every year on MM-DD at T"
IsYearlyDateText(s) ==
    Len(s) >= 6 /\ StartsWith(s, <<"every", "year", "on">>) /\ s[4].k = "md" /\ s[5] = W("at")
YearlyDateText(st) ==
    LET t == ParseTimeOf(From(st.toks, 6))
    IN  WithTimes({t}, YearlyDate(st.toks[4].a, st.toks[4].b, t), st)

\* the two times of "between T1 and T2" whose "and" is at place k
BetweenTimes(s, from, k) == <<ParseTimeOf(SubSeq(s, from, k - 1)), ParseTimeOf(From(s, k + 1))>>

\* parse_rule, "every day|weekday every N hours|minutes between t1 and t2"
IsStepText(s) ==
    /\ Len(s) >= 9 /\ s[1] = W("every") /\ s[2] \in {W("day"), W("weekday")}
    /\ s[3] = W("every") /\ s[4].k = "num" /\ s[5] \in {W("hours"), W("minutes")}
    /\ s[6] = W("between") /\ FirstAnd(s, 8) # 0
StepText(st) ==
    LET s == st.toks
        bt == BetweenTimes(s, 7, FirstAnd(s, 8))
    IN  WithTimes({bt[1], bt[2]}, StepWithinDay(s[2].s, s[4].a, s[5].s, bt[1], bt[2]), st)

\* parse_rule, "every N hours between t1 and t2"
IsHourlyNText(s) ==
    /\ Len(s) >= 7 /\ s[1] = W("every") /\ s[2].k = "num" /\ s[3] = W("hours")
    /\ s[4] = W("between") /\ FirstAnd(s, 6) # 0
HourlyNText(st) ==
    LET s == st.toks
        bt == BetweenTimes(s, 5, FirstAnd(s, 6))
    IN  WithTimes({bt[1], bt[2]}, HourlyBetween(s[2].a, bt[1], bt[2]), st)

\* parse_rule, "every hour between t1 and t2"
IsHourlyText(s) ==
    Len(s) >= 6 /\ StartsWith(s, <<"every", "hour", "between">>) /\ FirstAnd(s, 5) # 0
HourlyText(st) ==
    LET s == st.toks
        bt == BetweenTimes(s, 4, FirstAnd(s, 5))
    IN  WithTimes({bt[1], bt[2]}, HourlyBetween(1, bt[1], bt[2]), st)

\* parse_rule, "every <n> units [on ...] [at ...]"
IsEveryNText(s) ==
    /\ Len(s) >= 3 /\ s[1] = W("every") /\ s[2].k = "num"
    /\ s[3] \in {W("minutes"), W("hours"), W("days"), W("weeks")}
    /\ (Len(s) = 3 \/ (Len(s) >= 5 /\ s[4] \in {W("on"), W("at")}))
EveryNText(st) ==
    LET s == st.toks
        k == IF Len(s) = 3 THEN 0 ELSE IF s[4] = W("at") THEN 4 ELSE FirstAt(s, 6)
        on_part == IF Len(s) = 3 \/ s[4] = W("at") THEN <<>>
                   ELSE IF k = 0 THEN From(s, 5) ELSE SubSeq(s, 5, k - 1)
        times == IF k = 0 THEN {} ELSE ParseTimes(From(s, k + 1))
    IN  WithTimes(times, EveryN(s[2].a, s[3].s, ParseWeekdayList(on_part), times), st)

\* parse_rule, "every weekday at ..."
IsWeekdayAtText(s) == Len(s) >= 4 /\ StartsWith(s, <<"every", "weekday", "at">>)
WeekdayAtText(st) ==
    WithTimes(ParseTimes(From(st.toks, 4)), WeekdayAt(ParseTimes(From(st.toks, 4))), st)

\* parse_rule, "every day at ..."
IsDayAtText(s) == Len(s) >= 4 /\ StartsWith(s, <<"every", "day", "at">>)
DayAtText(st) ==
    WithTimes(ParseTimes(From(st.toks, 4)), DayAt(ParseTimes(From(st.toks, 4))), st)

\* parse_rule, "every <weekday list> at ...": the list is all weekdays
IsWeekdaysAtText(s) ==
    /\ Len(s) >= 4 /\ s[1] = W("every") /\ FirstAt(s, 3) # 0
    /\ LET days == Chunks(SubSeq(s, 2, FirstAt(s, 3) - 1))
       IN  days # {} /\ \A t \in days : t.k = "w" /\ t.s \in WEEKDAYS
WeekdaysAtText(st) ==
    LET s == st.toks
        k == FirstAt(s, 3)
        times == ParseTimes(From(s, k + 1))
    IN  WithTimes(times, WeekdaysAt(ParseWeekdayList(SubSeq(s, 2, k - 1)), times), st)

\* parse_rule, "every year on the <ord> <weekday> of <month> at T"
IsYearlyNthText(s) ==
    /\ Len(s) >= 10 /\ StartsWith(s, <<"every", "year", "on", "the">>)
    /\ s[5].k = "w" /\ s[5].s \in DOMAIN ORDINAL
    /\ s[6].k = "w" /\ s[6].s \in WEEKDAYS
    /\ s[7] = W("of") /\ s[8].k = "w" /\ s[8].s \in DOMAIN MonthNumber /\ s[9] = W("at")
YearlyNthText(st) ==
    LET s == st.toks
        t == ParseTimeOf(From(s, 10))
    IN  WithTimes({t}, YearlyNth(ORDINAL[s[5].s], WEEKDAY_MAP[s[6].s], MonthNumber[s[8].s], t), st)

\* parse_rule, "every month on the ... at ..."
IsMonthlyText(s) ==
    Len(s) >= 7 /\ StartsWith(s, <<"every", "month", "on", "the">>) /\ FirstAt(s, 6) # 0
MonthlyText(st) ==
    LET s == st.toks
        k == FirstAt(s, 6)
        t == ParseTimeOf(From(s, k + 1))
        on_part == SubSeq(s, 5, k - 1)
        nums == Digits(on_part)
    IN  IF t = Invalid THEN ValueError
        ELSE IF on_part = <<W("last"), W("day")>> THEN Parsed(MonthlyDays({0 - 1}, t), st)
        ELSE IF nums # {} /\ nums \subseteq 1..31 THEN Parsed(MonthlyDays(nums, t), st)
        ELSE IF Len(on_part) = 2 /\ on_part[1].k = "w" /\ on_part[1].s \in DOMAIN ORDINAL
                /\ on_part[2].k = "w" /\ on_part[2].s \in WEEKDAYS
        THEN Parsed(MonthlyNth(ORDINAL[on_part[1].s], WEEKDAY_MAP[on_part[2].s], t), st)
        ELSE ValueError

\* the branches of parse_rule in their order, on the text left by the
\* suffix loop and the mid-except step
Branches(st) ==
    LET s == st.toks
    IN  IF IsOneShotText(s) THEN OneShotText(st)
        ELSE IF IsYearlyDateText(s) THEN YearlyDateText(st)
        ELSE IF IsStepText(s) THEN StepText(st)
        ELSE IF IsHourlyNText(s) THEN HourlyNText(st)
        ELSE IF IsHourlyText(s) THEN HourlyText(st)
        ELSE IF IsEveryNText(s) THEN EveryNText(st)
        ELSE IF IsWeekdayAtText(s) THEN WeekdayAtText(st)
        ELSE IF IsDayAtText(s) THEN DayAtText(st)
        ELSE IF IsWeekdaysAtText(s) THEN WeekdaysAtText(st)
        ELSE IF IsYearlyNthText(s) THEN YearlyNthText(st)
        ELSE IF IsMonthlyText(s) THEN MonthlyText(st)
        ELSE ValueError

\* parse_rule: the rule in a sequence, or ValueError
ParseRule(toks) ==
    The({Branches(st) : st \in {MidExcept(sfx) : sfx \in {StripSuffixes(
        [toks |-> toks, shift |-> "none", window |-> NoWindow, ex |-> NoExcept])}}})

\* the place of the first ", and " of a text, 0 when there is none
FirstSplit(toks) ==
    IF {n \in 1..(Len(toks) - 2) : toks[n] = Comma /\ toks[n + 1] = W("and")} = {} THEN 0
    ELSE SetMin({n \in 1..(Len(toks) - 2) : toks[n] = Comma /\ toks[n + 1] = W("and")})

\* re.split(r"\s*,\s*and\s+", raw), without the empty pieces
RECURSIVE SplitRules(_)
SplitRules(toks) ==
    IF Len(toks) = 0 THEN <<>>
    ELSE IF FirstSplit(toks) = 0 THEN <<toks>>
    ELSE (IF FirstSplit(toks) = 1 THEN <<>> ELSE <<SubSeq(toks, 1, FirstSplit(toks) - 1)>>)
         \o SplitRules(From(toks, FirstSplit(toks) + 2))

\* the result of a parser: the rules, or the ValueError it raised
ParseOk(rules) == [k |-> "ok", rules |-> rules]
ParseError == [k |-> "ValueError", rules |-> <<>>]

\* en.parse_schedule
ParseScheduleEn(toks) ==
    The({IF \E n \in 1..Len(parsed) : Len(parsed[n]) = 0 THEN ParseError
         ELSE ParseOk([n \in 1..Len(parsed) |-> parsed[n][1]]) :
            parsed \in {[n \in 1..Len(pieces) |-> ParseRule(pieces[n])] :
                            pieces \in {SplitRules(toks)}}})

\* ------------------------------------------------------------------------
\* FR -> EN (src/fr_impl.py): a chain of re.sub passes.  A pass is a pattern
\* of tokens and its replacement; head and tail are the anchors ^ and $, pre
\* is white space required before the pattern, keep counts the last tokens
\* of the pattern that are looked at and left in place.
\* ------------------------------------------------------------------------

\* elements of a pattern: any token of kind k ("*": any token), a word of a
\* class, any token but word w; a literal token stands for itself
AnyTok(k) == Tok("any", k, 0, 0)
OneOf(cls) == Tok("oneof", cls, 0, 0)
Not(w) == Tok("not", w, 0, 0)
\* elements of a replacement: the n-th token matched, and the n-th token
\* matched, a French time, rewritten HH:MM
Ref(n) == Tok("ref", "", n, 0)
ToClock(n) == Tok("toclock", "", n, 0)

\* the alternations of the patterns of fr_to_en_rule
WordClass(cls) ==
    CASE cls = "weekday" -> WEEKDAYS
      [] cls = "ordinal" -> DOMAIN ORDINAL
      [] cls = "days" -> {"day", "weekday"}
      [] cls = "units" -> {"hours", "minutes"}

Pass(pat, rep, head, tail, pre, keep) ==
    [pat |-> pat, rep |-> rep, head |-> head, tail |-> tail, pre |-> pre, keep |-> keep]
\* re.sub(r"\bpat\b", rep, s)
Sub(pat, rep) == Pass(pat, rep, FALSE, FALSE, FALSE, 0)
\* re.sub(r"^pat", rep, s) with keep tokens of look-ahead
SubHead(pat, rep, keep) == Pass(pat, rep, TRUE, FALSE, FALSE, keep)
\* re.sub(r"^pat$", rep, s)
SubWhole(pat, rep) == Pass(pat, rep, TRUE, TRUE, FALSE, 0)
\* re.sub(r"\bfr\b", en, s)
SubWord(fr, en) == Sub(<<W(fr)>>, <<W(en)>>)
\* re.sub of a phrase of words by a phrase of words
Words(ws) == [n \in 1..Len(ws) |-> W(ws[n])]
SubWords(fr, en) == Sub(Words(fr), Words(en))

MatchTok(tok, p) ==
    CASE p.k = "any" -> p.s = "*" \/ tok.k = p.s
      [] p.k = "oneof" -> tok.k = "w" /\ tok.s \in WordClass(p.s)
      [] p.k = "not" -> tok # W(p.s)
      [] OTHER -> tok = p

\* the pattern of pass r matches the text at place n
MatchesAt(toks, r, n) ==
    /\ n + Len(r.pat) - 1 <= Len(toks)
    /\ r.head => n = 1
    /\ r.tail => n + Len(r.pat) - 1 = Len(toks)
    /\ r.pre => n > 1
    /\ \A m \in 1..Len(r.pat) : MatchTok(toks[n + m - 1], r.pat[m])

\* the replacement of pass r for the match at place n
Subst(toks, r, n) ==
    [m \in 1..Len(r.rep) |->
        CASE r.rep[m].k = "ref" -> toks[n + r.rep[m].a - 1]
          [] r.rep[m].k = "toclock" ->
                Clock(toks[n + r.rep[m].a - 1].a,
                      IF toks[n + r.rep[m].a - 1].b = None THEN 0 ELSE toks[n + r.rep[m].a - 1].b)
          [] OTHER -> r.rep[m]]

\* re.sub: the matches from left to right, not overlapping
RECURSIVE ReSub(_, _, _)
ReSub(toks, r, n) ==
    IF n > Len(toks) THEN <<>>
    ELSE IF MatchesAt(toks, r, n)
    THEN Subst(toks, r, n) \o ReSub(toks, r, n + Len(r.pat) - r.keep)
    ELSE <<toks[n]>> \o ReSub(toks, r, n + 1)

\* _wd_fr_to_en
WdFrToEn == <<
    <<"lundis", "monday">>, <<"lundi", "monday">>, <<"mardis", "tuesday">>,
    <<"mardi", "tuesday">>, <<"mercredis", "wednesday">>, <<"mercredi", "wednesday">>,
    <<"jeudis", "thursday">>, <<"jeudi", "thursday">>, <<"vendredis", "friday">>,
    <<"vendredi", "friday">>, <<"samedis", "saturday">>, <<"samedi", "saturday">>,
    <<"dimanches", "sunday">>, <<"dimanche", "sunday">> >>

\* _FR_MONTH_ORD
FR_MONTH_ORD == <<
    <<"premier", "first">>, <<"deuxième", "second">>, <<"deuxieme", "second">>,
    <<"troisième", "third">>, <<"troisieme", "third">>, <<"quatrième", "fourth">>,
    <<"quatrieme", "fourth">>, <<"cinquième", "fifth">>, <<"cinquieme", "fifth">>,
    <<"dernier", "last">>, <<"dernière", "last">>, <<"derniere", "last">> >>

\* month_map of fr_to_en_rule
FrMonths == <<
    <<"janvier", "january">>, <<"février", "february">>, <<"fevrier", "february">>,
    <<"mars", "march">>, <<"avril", "april">>, <<"mai", "may">>, <<"juin", "june">>,
    <<"juillet", "july">>, <<"août", "august">>, <<"aout", "august">>,
    <<"septembre", "september">>, <<"octobre", "october">>, <<"novembre", "november">>,
    <<"décembre", "december">>, <<"decembre", "december">> >>

\* the passes of a word map
WordPasses(map) == [n \in 1..Len(map) |-> SubWord(map[n][1], map[n][2])]

\* "d'<month>" and "de <month>" -> "of <month>", month after month
MonthPasses ==
    [n \in 1..(2 * Len(FrMonths)) |->
        SubWords(<<IF n % 2 = 1 THEN "d'" ELSE "de", FrMonths[(n + 1) \div 2][1]>>,
                 <<"of", FrMonths[(n + 1) \div 2][2]>>)]

\* "every year on <ordinal>" -> "every year on the <ordinal>"
YearOnThe ==
    Sub(<<W("every"), W("year"), W("on"), OneOf("ordinal")>>,
        <<W("every"), W("year"), W("on"), W("the"), Ref(4)>>)

\* the passes of fr_to_en_rule in their order
FrPasses ==
    <<  Sub(<<AnyTok("h")>>, <<ToClock(1)>>),                          \* _fr_time_to_en
        SubWord("à", "a"),
        Pass(<<Comma, W("et"), AnyTok("*")>>, <<Comma, W("and")>>, FALSE, FALSE, FALSE, 1),
        Sub(<<W("entre"), W("le"), AnyTok("date"), W("et"), W("le"), AnyTok("date")>>,
            <<W("between"), Ref(3), W("and"), Ref(6)>>),
        Sub(<<W("entre"), AnyTok("clock"), W("et"), AnyTok("clock")>>,
            <<W("between"), Ref(2), W("and"), Ref(4)>>),
        Sub(<<W("jusqu'au"), AnyTok("date")>>, <<W("until"), Ref(2)>>),
        Sub(<<W("jusquau"), AnyTok("date")>>, <<W("until"), Ref(2)>>),
        SubWords(<<"si", "week-end", "alors", "lundi", "suivant">>,
                 <<"if", "weekend", "then", "next", "monday">>),
        SubWords(<<"si", "weekend", "alors", "lundi", "suivant">>,
                 <<"if", "weekend", "then", "next", "monday">>),
        SubWords(<<"si", "week-end", "alors", "prochain", "jour", "ouvré">>,
                 <<"if", "weekend", "then", "next", "business", "day">>),
        SubWords(<<"si", "week-end", "alors", "prochain", "jour", "ouvre">>,
                 <<"if", "weekend", "then", "next", "business", "day">>),
        SubWords(<<"si", "weekend", "alors", "prochain", "jour", "ouvré">>,
                 <<"if", "weekend", "then", "next", "business", "day">>),
        SubWords(<<"si", "weekend", "alors", "prochain", "jour", "ouvre">>,
                 <<"if", "weekend", "then", "next", "business", "day">>),
        Sub(<<Comma>> \o Words(<<"if", "weekend", "then", "next", "monday">>),
            Words(<<"if", "weekend", "then", "next", "monday">>)),
        Sub(<<Comma>> \o Words(<<"if", "weekend", "then", "next", "business", "day">>),
            Words(<<"if", "weekend", "then", "next", "business", "day">>)),
        Pass(<<Comma>>, <<>>, FALSE, TRUE, FALSE, 0),
        SubWords(<<"tous", "les">>, <<"every">>),
        SubWords(<<"toutes", "les">>, <<"every">>),
        SubWords(<<"jour", "ouvrés">>, <<"weekday">>),
        SubWords(<<"jour", "ouvres">>, <<"weekday">>),
        SubWords(<<"jours", "ouvrés">>, <<"weekday">>),
        SubWords(<<"jours", "ouvres">>, <<"weekday">>),
        SubWord("jours", "days"), SubWord("jour", "day"),
        SubWord("semaines", "weeks"), SubWord("semaine", "week"),
        SubWord("heures", "hours"), SubWord("heure", "hour"),
        SubWords(<<"every", "days">>, <<"every", "day">>),
        SubWords(<<"every", "weekdays">>, <<"every", "weekday">>),
        SubWords(<<"every", "hours">>, <<"every", "hour">>),
        SubWords(<<"every", "minutes">>, <<"every", "minute">>),
        SubWords(<<"every", "weeks">>, <<"every", "week">>),
        SubWord("mois", "month"), SubWord("ans", "years"), SubWord("an", "year"),
        SubWords(<<"every", "years">>, <<"every", "year">>),
        Sub(<<Ord(1, "er")>>, <<Ord(1, "st")>>),
        SubWords(<<"dernier", "jour">>, <<"last", "day">>) >>
    \o WordPasses(FR_MONTH_ORD)
    \o WordPasses(WdFrToEn)
    \o MonthPasses
    \o << YearOnThe,
        SubWord("et", "and"),
        SubWord("sauf", "except"),
        SubHead(<<W("every"), OneOf("days"), Comma, W("every"), AnyTok("num"), OneOf("units"),
                  W("between")>>,
                <<W("every"), Ref(2), W("every"), Ref(5), Ref(6), W("between")>>, 0),
        SubWords(<<"every", "month", "le">>, <<"every", "month", "on", "the">>),
        SubHead(<<W("every"), W("month"), Not("on")>>, Words(<<"every", "month", "on", "the">>), 1),
        SubWords(<<"every", "year", "le">>, <<"every", "year", "on">>),
        SubWhole(<<W("every"), W("year"), W("le"), AnyTok("md"), W("a"), AnyTok("clock")>>,
                 <<W("every"), W("year"), W("on"), Ref(4), W("at"), Ref(6)>>),
        SubWhole(<<W("le"), AnyTok("date"), W("a"), AnyTok("clock")>>, <<Ref(2), W("at"), Ref(4)>>),
        Pass(<<W("a"), AnyTok("clock")>>, <<W("at"), Ref(2)>>, FALSE, FALSE, TRUE, 0),
        Sub(<<W("le"), AnyTok("date"), W("at"), AnyTok("clock")>>, <<Ref(2), W("at"), Ref(4)>>),
        Sub(<<W("le"), OneOf("weekday")>>, <<Ref(2)>>),
        SubHead(<<W("every"), AnyTok("num"), W("weeks"), OneOf("weekday")>>,
                <<W("every"), Ref(2), W("weeks"), W("on"), Ref(4)>>, 0),
        YearOnThe >>

\* the text after the passes from the n-th on
RECURSIVE ApplyPasses(_, _)
ApplyPasses(toks, n) ==
    IF n > Len(FrPasses) \/ Len(toks) = 0 THEN toks
    ELSE ApplyPasses(ReSub(toks, FrPasses[n], 1), n + 1)

\* fr_to_en_rule
FrToEnRule(toks) == ApplyPasses(toks, 1)

\* fr.parse_schedule
ParseScheduleFr(toks) == The({ParseScheduleEn(en_text) : en_text \in {FrToEnRule(toks)}})

\* ------------------------------------------------------------------------
\* Language detection (src/recpyx/parser.py)
\* ------------------------------------------------------------------------

\* the words _FR_MARKERS matches (its accented alternatives are stored
\* mis-encoded in the source and match no accented word)
FR_MARKERS ==
    {"tous", "toutes", "sauf", "lundi", "mardi", "mercredi", "jeudi", "vendredi",
     "samedi", "dimanche", "ouvre", "ouvres", "semaine", "semaines", "mois", "ans",
     "an", "entre", "jusqu'au", "jusquau", "week-end", "weekend", "janvier", "fevrier",
     "mars", "avril", "mai", "juin", "juillet", "aout", "septembre", "octobre",
     "novembre", "decembre"}

\* the words _EN_MARKERS matches
EN_MARKERS ==
    {"every", "except", "monday", "tuesday", "wednesday", "thursday", "friday",
     "saturday", "sunday", "weekday", "weekend", "between", "until", "january",
     "february", "march", "april", "may", "june", "july", "august", "september",
     "october", "november", "december"}

\* len(markers.findall(text))
Hits(toks, markers) == Cardinality({n \in 1..Len(toks) : toks[n].k = "w" /\ toks[n].s \in markers})

\* detect_language
DetectLanguage(toks) ==
    IF Hits(toks, FR_MARKERS) > Hits(toks, EN_MARKERS) THEN "fr"
    ELSE IF Hits(toks, EN_MARKERS) > Hits(toks, FR_MARKERS) THEN "en"
    ELSE "en"

\* the parser of a language, and the other language
ParseScheduleOf(l, toks) == IF l = "fr" THEN ParseScheduleFr(toks) ELSE ParseScheduleEn(toks)
Other(l) == IF l = "fr" THEN "en" ELSE "fr"

\* ------------------------------------------------------------------------
\* Texts explored: paired rules of CASES_FR and CASES_EN
\* (src/tests/test_engine.py), texts no parser accepts, texts with numerals
\* at the edge of their range, a rule with its trailing clauses in each order
\* ------------------------------------------------------------------------

Pairs == <<
    \* "tous les dimanches à 10h" / "every sunday at 10AM"
    [fr |-> <<W("tous"), W("les"), W("dimanches"), W("à"), ClockH(10, None)>>,
     en |-> <<W("every"), W("sunday"), W("at"), ClockAP(10, "am")>>],
    \* "tous les jours sauf le mercredi à 10h" / "every day except wednesday at 10AM"
    [fr |-> <<W("tous"), W("les"), W("jours"), W("sauf"), W("le"), W("mercredi"), W("à"),
              ClockH(10, None)>>,
     en |-> <<W("every"), W("day"), W("except"), W("wednesday"), W("at"), ClockAP(10, "am")>>],
    \* "tous les samedis à 10h00, 14h00, 18h00" / "every saturday at 10:00, 14:00, 18:00"
    [fr |-> <<W("tous"), W("les"), W("samedis"), W("à"), ClockH(10, 0), Comma, ClockH(14, 0),
              Comma, ClockH(18, 0)>>,
     en |-> <<W("every"), W("saturday"), W("at"), Clock(10, 0), Comma, Clock(14, 0), Comma,
              Clock(18, 0)>>],
    \* "tous les jours ouvrés, toutes les 2 heures entre 09h00 et 17h00" /
    \* "every weekday every 2 hours between 09:00 and 17:00"
    [fr |-> <<W("tous"), W("les"), W("jours"), W("ouvrés"), Comma, W("toutes"), W("les"),
              Num(2), W("heures"), W("entre"), ClockH(9, 0), W("et"), ClockH(17, 0)>>,
     en |-> <<W("every"), W("weekday"), W("every"), Num(2), W("hours"), W("between"),
              Clock(9, 0), W("and"), Clock(17, 0)>>],
    \* "toutes les 2 heures entre 09h00 et 17h00" / "every 2 hours between 09:00 and 17:00"
    [fr |-> <<W("toutes"), W("les"), Num(2), W("heures"), W("entre"), ClockH(9, 0), W("et"),
              ClockH(17, 0)>>,
     en |-> <<W("every"), Num(2), W("hours"), W("between"), Clock(9, 0), W("and"),
              Clock(17, 0)>>],
    \* "tous les mois le 1er à 09h00 entre le 2026-08-01 et le 2026-08-31, si week-end
    \* alors lundi suivant" / "every month on the 1st at 09:00 between 2026-08-01 and
    \* 2026-08-31 if weekend then next monday"
    [fr |-> <<W("tous"), W("les"), W("mois"), W("le"), Ord(1, "er"), W("à"), ClockH(9, 0),
              W("entre"), W("le"), DateTok(D(8, 1)), W("et"), W("le"), DateTok(D(8, 31)),
              Comma, W("si"), W("week-end"), W("alors"), W("lundi"), W("suivant")>>,
     en |-> <<W("every"), W("month"), W("on"), W("the"), Ord(1, "st"), W("at"), Clock(9, 0),
              W("between"), DateTok(D(8, 1)), W("and"), DateTok(D(8, 31)), W("if"),
              W("weekend"), W("then"), W("next"), W("monday")>>],
    \* "le 2026-03-13 à 02h00" / "2026-03-13 at 2:00"
    [fr |-> <<W("le"), DateTok(D(3, 13)), W("à"), ClockH(2, 0)>>,
     en |-> <<DateTok(D(3, 13)), W("at"), Clock(2, 0)>>],
    \* "tous les mois le premier lundi à 09h00 sauf le 2026-04-06" /
    \* "every month on the first monday at 09:00 except 2026-04-06"
    [fr |-> <<W("tous"), W("les"), W("mois"), W("le"), W("premier"), W("lundi"), W("à"),
              ClockH(9, 0), W("sauf"), W("le"), DateTok(D(4, 6))>>,
     en |-> <<W("every"), W("month"), W("on"), W("the"), W("first"), W("monday"), W("at"),
              Clock(9, 0), W("except"), DateTok(D(4, 6))>>],
    \* "tous les jours à 18h00, et le 2026-03-13 à 02h00" /
    \* "every day at 18:00, and 2026-03-13 at 02:00"
    [fr |-> <<W("tous"), W("les"), W("jours"), W("à"), ClockH(18, 0), Comma, W("et"),
              W("le"), DateTok(D(3, 13)), W("à"), ClockH(2, 0)>>,
     en |-> <<W("every"), W("day"), W("at"), Clock(18, 0), Comma, W("and"),
              DateTok(D(3, 13)), W("at"), Clock(2, 0)>>],
    \* "tous les jours à 10h00 jusqu'au 2026-12-31" / "every day at 10:00 until 2026-12-31"
    [fr |-> <<W("tous"), W("les"), W("jours"), W("à"), ClockH(10, 0), W("jusqu'au"),
              DateTok(D(12, 31))>>,
     en |-> <<W("every"), W("day"), W("at"), Clock(10, 0), W("until"), DateTok(D(12, 31))>>],
    \* "tous les ans le dernier dimanche d'octobre à 23h00" /
    \* "every year on the last sunday of october at 23:00"
    [fr |-> <<W("tous"), W("les"), W("ans"), W("le"), W("dernier"), W("dimanche"), W("d'"),
              W("octobre"), W("à"), ClockH(23, 0)>>,
     en |-> <<W("every"), W("year"), W("on"), W("the"), W("last"), W("sunday"), W("of"),
              W("october"), W("at"), Clock(23, 0)>>],
    \* "tous les mois le 2 et le 15 à 08h00" / "every month on the 2nd and 15th at 08:00"
    [fr |-> <<W("tous"), W("les"), W("mois"), W("le"), Num(2), W("et"), W("le"), Num(15),
              W("à"), ClockH(8, 0)>>,
     en |-> <<W("every"), W("month"), W("on"), W("the"), Ord(2, "nd"), W("and"),
              Ord(15, "th"), W("at"), Clock(8, 0)>>]
>>

\* texts that are no rule: "tous les lundi", "every monday"
NoRules == {<<W("tous"), W("les"), W("lundi")>>, <<W("every"), W("monday")>>}

\* texts with a numeral at the edge of its range, or beyond it:
\* "every 0 minutes", "every 1 minutes", "every year on 13-01 at 10:00",
\* "every year on 12-31 at 10:00", "every month on the 32nd at 10:00",
\* "every month on the 31st at 10:00"
RangeTexts == {
    <<W("every"), Num(0), W("minutes")>>,
    <<W("every"), Num(1), W("minutes")>>,
    <<W("every"), W("year"), W("on"), MonthDay(13, 1), W("at"), Clock(10, 0)>>,
    <<W("every"), W("year"), W("on"), MonthDay(12, 31), W("at"), Clock(10, 0)>>,
    <<W("every"), W("month"), W("on"), W("the"), Ord(32, "nd"), W("at"), Clock(10, 0)>>,
    <<W("every"), W("month"), W("on"), W("the"), Ord(31, "st"), W("at"), Clock(10, 0)>>
}

\* the trailing clauses of a rule text, by name: "if weekend then next
\* monday", "between 2026-03-10 and 2026-03-20", "until 2026-03-18",
\* "except thursday"
Clause(c) ==
    CASE c = "shift" -> <<W("if"), W("weekend"), W("then"), W("next"), W("monday")>>
      [] c = "between" -> <<W("between"), DateTok(D(3, 10)), W("and"), DateTok(D(3, 20))>>
      [] c = "until" -> <<W("until"), DateTok(D(3, 18))>>
      [] c = "except" -> <<W("except"), W("thursday")>>

\* the orders in which the clauses of a set can be written
Orders(S) == {o \in [1..Cardinality(S) -> S] : \A a, b \in DOMAIN o : o[a] = o[b] => a = b}

\* the clauses of an order, written one after the other
RECURSIVE Clauses(_)
Clauses(o) == IF o = <<>> THEN <<>> ELSE Clause(Head(o)) \o Clauses(Tail(o))

\* "every day at 10:00" followed by the clauses of an order
Written(o) == <<W("every"), W("day"), W("at"), Clock(10, 0)>> \o Clauses(o)

\* the orders of the clause sets explored
SuffixOrders == Orders({"between", "until", "except"}) \cup Orders({"shift", "between", "except"})

SuffixTexts == {Written(o) : o \in SuffixOrders}

Texts ==
    {Pairs[p].fr : p \in 1..Len(Pairs)} \cup {Pairs[p].en : p \in 1..Len(Pairs)} \cup NoRules
        \cup RangeTexts \cup SuffixTexts

\* ------------------------------------------------------------------------
\* The calls
\* ------------------------------------------------------------------------

\* the local state of a call of operation o entered with reference instant t
\* (validate: now = now.replace(second=0, microsecond=0))
Enter(o, t) ==
    /\ op' = o
    /\ now' = IF o = "validate" THEN TruncMinute(t) ELSE t
    /\ pc' = IF o = "validate" THEN "validate" ELSE "rules"
    /\ vi' = 1
    /\ i' = 1
    /\ probe' = None
    /\ iter' = iter          \* bound by the for statement of each probe loop
    /\ base' = None
    /\ contrib' = FreshCandidates(contrib)
    /\ result' = Pending
    /\ vresult' = Pending

Init ==
    /\ op \in {"next_occurrence", "validate"}
    /\ sched \in Schedules
    /\ arg \in Nows
    /\ calls = <<>>
    /\ text = <<>>
    /\ lang = "none"
    /\ tried = <<>>
    /\ now = IF op = "validate" THEN TruncMinute(arg) ELSE arg
    /\ pc = IF op = "validate" THEN "validate" ELSE "rules"
    /\ vi = 1
    /\ i = 1
    /\ probe = None
    /\ iter = 0
    /\ base = None
    /\ contrib = <<>>
    /\ result = Pending
    /\ vresult = Pending
    /\ members = <<>>
    /\ target = None
    /\ inclusive = FALSE
    /\ next_values = <<>>
    /\ answer = None

\* what the call under way gave its caller: the instant or the error
CallOutcome(o, r, v) == IF o = "validate" THEN v.k ELSE r

\* the call under way has returned or raised; the caller calls again, with
\* the same text and the same now
NextCall ==
    /\ pc = "done" /\ Len(calls) + 1 < MaxCalls
    /\ calls' = Append(calls, [op |-> op, out |-> CallOutcome(op, result, vresult)])
    /\ \E o \in {"next_occurrence", "validate"} : Enter(o, arg)
    /\ UNCHANGED <<expander, arg, sched, text, lang, tried>>

\* where control goes when next_occurrence returns or raises
AfterCall == IF op = "validate" THEN "returned" ELSE "done"

\* next_occurrence, "for r in sched.rules", one-shot branch
OneShotStep ==
    /\ pc = "rules" /\ i <= Len(sched) /\ sched[i].type = "oneshot"
    /\ \E o \in {OneShotIter(CurrentRule(sched, i), now)} :
           IF o.k = "unsupported"
           THEN /\ result' = [k |-> "unsupported", v |-> None]
                /\ pc' = AfterCall
                /\ UNCHANGED <<i, contrib>>
           ELSE /\ contrib' = Append(contrib, o.v)
                /\ i' = i + 1
                /\ UNCHANGED <<result, pc>>
    /\ UNCHANGED <<expander, arg, calls, text, lang, tried, base, op, sched, now, vi, probe, iter, vresult>>

\* next_occurrence, recurring rule: rs = _build_rruleset(...); probe = now
StartRecurring ==
    /\ pc = "rules" /\ i <= Len(sched) /\ sched[i].type = "rrule"
    /\ probe' = now
    /\ iter' = FreshBudget(iter)
    /\ pc' = "probe"
    /\ UNCHANGED <<expander, arg, calls, text, lang, tried, base, op, sched, now, vi, i, contrib, result, vresult>>

\* an iteration of "for _ in range(500)", first half: ask the expander
ProbeAskStep ==
    /\ pc = "probe" /\ iter < MaxProbes
    /\ \E o \in {ProbeAsk(CurrentRule(sched, i), now, probe)} :
           CASE o.k = "base" ->
                  /\ base' = o.v
                  /\ pc' = "filter"
                  /\ UNCHANGED <<i, contrib, result>>
             [] o.k = "break" ->
                  /\ contrib' = Append(contrib, None)
                  /\ i' = i + 1
                  /\ pc' = "rules"
                  /\ UNCHANGED <<base, result>>
             [] o.k = "hang" ->
                  /\ result' = Outcome("hang", None)
                  /\ pc' = "hung"
                  /\ UNCHANGED <<base, i, contrib>>
             [] o.k = "range_error" ->
                  /\ result' = Outcome("range_error", None)
                  /\ pc' = AfterCall
                  /\ UNCHANGED <<base, i, contrib>>
    /\ UNCHANGED <<expander, arg, calls, text, lang, tried, op, sched, now, vi, probe, iter, vresult>>

\* an iteration of "for _ in range(500)", second half: expand, shift, filter
ProbeFilterStep ==
    /\ pc = "filter"
    /\ \E o \in {ProbeFilter(CurrentRule(sched, i), probe, base)} :
           CASE o.k = "retry" ->
                  /\ probe' = o.v
                  /\ iter' = iter + 1
                  /\ pc' = "probe"
                  /\ UNCHANGED <<i, contrib, result>>
             [] o.k \in {"accept", "break"} ->
                  /\ contrib' = Append(contrib, o.v)
                  /\ i' = i + 1
                  /\ pc' = "rules"
                  /\ UNCHANGED <<probe, iter, result>>
             [] o.k = "hang" ->
                  /\ result' = Outcome("hang", None)
                  /\ pc' = "hung"
                  /\ UNCHANGED <<probe, iter, i, contrib>>
             [] o.k \in {"range_error", "unsupported"} ->
                  /\ result' = Outcome(o.k, None)
                  /\ pc' = AfterCall
                  /\ UNCHANGED <<probe, iter, i, contrib>>
    /\ UNCHANGED <<expander, arg, calls, text, lang, tried, op, sched, now, vi, base, vresult>>

\* the budget of the probe loop is used up: the rule appends nothing
ProbeExhausted ==
    /\ pc = "probe" /\ iter >= MaxProbes
    /\ contrib' = Append(contrib, None)
    /\ i' = i + 1
    /\ pc' = "rules"
    /\ UNCHANGED <<expander, arg, calls, text, lang, tried, base, op, sched, now, vi, probe, iter, result, vresult>>

\* "if not candidates: raise RuntimeError(...)" / "return min(candidates)"
Finish ==
    /\ pc = "rules" /\ i > Len(sched)
    /\ result' = IF Candidates(contrib) = {} THEN [k |-> "no_occurrence", v |-> None]
                 ELSE [k |-> "instant", v |-> MinCandidate(contrib)]
    /\ pc' = AfterCall
    /\ UNCHANGED <<expander, arg, calls, text, lang, tried, base, op, sched, now, vi, i, probe, iter, contrib, vresult>>

\* validate, "for r in sched.rules": the window check, the one-shot checks,
\* or the call of next_occurrence for a recurring rule
ValidateRule ==
    /\ pc = "validate" /\ vi <= Len(sched)
    /\ LET r == sched[vi]
           w == WindowDatetimes(r.window_date)
           w_start == w[1]
           w_end == w[2]
       IN  IF w_start # None /\ w_end # None /\ w_end < w_start
           THEN /\ vresult' = [k |-> "invalid_window", v |-> vi]
                /\ pc' = "done"
                /\ UNCHANGED <<vi, i, contrib, result>>
           ELSE IF r.type = "oneshot"
           THEN IF \/ WeekdayOf(r.at) \in r.except_.weekdays
                   \/ DateOf(r.at) \in r.except_.dates
                   \/ (w_start # None /\ r.at < w_start)
                   \/ (w_end # None /\ r.at > w_end)
                THEN /\ vresult' = [k |-> "invalid_oneshot", v |-> vi]
                     /\ pc' = "done"
                     /\ UNCHANGED <<vi, i, contrib, result>>
                ELSE /\ vi' = vi + 1
                     /\ UNCHANGED <<pc, vresult, i, contrib, result>>
           ELSE /\ pc' = "rules"
                /\ i' = 1
                /\ contrib' = FreshCandidates(contrib)
                /\ result' = Pending
                /\ UNCHANGED <<vi, vresult>>
    /\ UNCHANGED <<expander, arg, calls, text, lang, tried, base, op, sched, now, probe, iter>>

\* horizon_end = w_end or (now + timedelta(days=366))
HorizonEnd(r, t) ==
    LET w_end == WindowDatetimes(r.window_date)[2]
    IN  IF w_end # None THEN w_end ELSE t + HorizonDays * Day

\* validate after next_occurrence returned or raised: "except RuntimeError"
\* and "if dt > horizon_end"
ValidateReturn ==
    /\ pc = "returned"
    /\ CASE result.k \in {"no_occurrence", "unsupported"} ->
              /\ vresult' = [k |-> "invalid_no_occurrence", v |-> vi]
              /\ pc' = "done"
              /\ UNCHANGED vi
         [] result.k = "range_error" ->
              /\ vresult' = [k |-> "range_error", v |-> vi]
              /\ pc' = "done"
              /\ UNCHANGED vi
         [] result.k = "instant" ->
              IF result.v > HorizonEnd(sched[vi], now)
              THEN /\ vresult' = [k |-> "invalid_no_occurrence", v |-> vi]
                   /\ pc' = "done"
                   /\ UNCHANGED vi
              ELSE /\ vi' = vi + 1
                   /\ pc' = "validate"
                   /\ UNCHANGED vresult
    /\ UNCHANGED <<expander, arg, calls, text, lang, tried, base, op, sched, now, i, probe, iter, contrib, result>>

\* validate returns None
ValidateFinish ==
    /\ pc = "validate" /\ vi > Len(sched)
    /\ vresult' = [k |-> "ok", v |-> None]
    /\ pc' = "done"
    /\ UNCHANGED <<expander, arg, calls, text, lang, tried, base, op, sched, now, vi, i, probe, iter, contrib, result>>

Next ==
    \/ OneShotStep
    \/ StartRecurring
    \/ ProbeAskStep
    \/ ProbeFilterStep
    \/ ProbeExhausted
    \/ Finish
    \/ ValidateRule
    \/ ValidateReturn
    \/ ValidateFinish
    \/ NextCall

Spec == Init /\ [][Next]_vars

\* ------------------------------------------------------------------------
\* Calls on texts: next_occurrence(text, now), which parses the text with
\* the parse_schedule that engine.py imports (from .en), and
\* parser.parse_schedule(text)
\* ------------------------------------------------------------------------

TextInit ==
    /\ op \in {"next_occurrence", "parse_schedule"}
    /\ text \in Texts
    /\ lang = "none"
    /\ tried = <<>>
    /\ sched = <<>>
    /\ arg \in Nows
    /\ calls = <<>>
    /\ now = arg
    /\ pc = IF op = "next_occurrence" THEN "parse" ELSE "detect"
    /\ vi = 1
    /\ i = 1
    /\ probe = None
    /\ iter = 0
    /\ base = None
    /\ contrib = <<>>
    /\ result = Pending
    /\ vresult = Pending
    /\ members = <<>>
    /\ target = None
    /\ inclusive = FALSE
    /\ next_values = <<>>
    /\ answer = None

\* next_occurrence, "sched = parse_schedule(text, default_tz=default_tz)"
ParseText ==
    /\ pc = "parse"
    /\ \E p \in {ParseScheduleEn(text)} :
       IF p.k = "ok"
       THEN /\ sched' = p.rules
            /\ pc' = "rules"
            /\ UNCHANGED result
       ELSE /\ result' = Outcome("ValueError", None)
            /\ pc' = "done"
            /\ UNCHANGED sched
    /\ UNCHANGED <<expander, arg, calls, text, lang, tried, op, now, vi, i, probe, iter, base, contrib, vresult>>

\* the caller of next_occurrence on the French text of a pair calls it on
\* the English text of the pair, with the same now
NextText ==
    /\ pc = "done" /\ op = "next_occurrence" /\ calls = <<>>
    /\ \E p \in 1..Len(Pairs) : text = Pairs[p].fr /\ text' = Pairs[p].en
    /\ calls' = Append(calls, [op |-> op, out |-> result])
    /\ pc' = "parse"
    /\ sched' = <<>>
    /\ i' = 1
    /\ probe' = None
    /\ base' = None
    /\ contrib' = FreshCandidates(contrib)
    /\ result' = Pending
    /\ UNCHANGED <<expander, arg, lang, tried, op, now, vi, iter, vresult>>

\* parser.parse_schedule, "lang = detect_language(text)"
DetectStep ==
    /\ pc = "detect"
    /\ lang' = DetectLanguage(text)
    /\ pc' = "primary"
    /\ UNCHANGED <<expander, arg, calls, text, tried, op, sched, now, vi, i, probe, iter, base, contrib, result, vresult>>

\* _parse_with_fallback, "return primary(text, default_tz=default_tz)"
TryPrimary ==
    /\ pc = "primary"
    /\ \E p \in {ParseScheduleOf(lang, text)} :
        /\ tried' = <<[parser |-> lang, out |-> p]>>
        /\ IF p.k = "ok"
           THEN sched' = p.rules /\ pc' = "done"
           ELSE pc' = "secondary" /\ UNCHANGED sched
    /\ UNCHANGED <<expander, arg, calls, text, lang, op, now, vi, i, probe, iter, base, contrib, result, vresult>>

\* _parse_with_fallback, "except ValueError: return secondary(text, ...)"
TrySecondary ==
    /\ pc = "secondary"
    /\ \E p \in {ParseScheduleOf(Other(lang), text)} :
        /\ tried' = Append(tried, [parser |-> Other(lang), out |-> p])
        /\ sched' = p.rules
    /\ pc' = "done"
    /\ UNCHANGED <<expander, arg, calls, text, lang, op, now, vi, i, probe, iter, base, contrib, result, vresult>>

TextNext ==
    \/ ParseText
    \/ NextText
    \/ DetectStep
    \/ TryPrimary
    \/ TrySecondary
    \/ OneShotStep
    \/ StartRecurring
    \/ ProbeAskStep
    \/ ProbeFilterStep
    \/ Finish

TextSpec == TextInit /\ [][TextNext]_vars

\* ------------------------------------------------------------------------
\* Properties
\* ------------------------------------------------------------------------

\* the window [w_start, w_end] of a rule
WStart(r) == WindowDatetimes(r.window_date)[1]
WEnd(r) == WindowDatetimes(r.window_date)[2]

\* the rules that have appended a candidate so far
Contributors == {j \in 1..Len(contrib) : contrib[j] # None}

\* C1 - Strictness: whenever next_occurrence returns an instant, the instant
\* is strictly greater than the reference instant now.
C1_Strictness == result.k = "instant" => result.v > now

\* a call of next_occurrence returned the first instant of a grid anchored at now
C1_Witness ==
    /\ op = "next_occurrence" /\ pc = "done" /\ result.k = "instant"
    /\ sched[1].freq = "minutely" /\ now % Minute = 0
    /\ result.v = now + sched[1].interval * Minute

\* the instant a rule contributes when the loop over its probes is run from
\* probe with n iterations done: the v of the accepting or breaking iteration,
\* None when the budget is used up; the error sentinels otherwise
RECURSIVE ProbeLoop(_, _, _, _)
ProbeLoop(r, t, p, n) ==
    IF n >= MaxProbes THEN None
    ELSE LET o == ProbeIter(r, t, p)
         IN  CASE o.k = "retry" -> ProbeLoop(r, t, o.v, n + 1)
               [] o.k \in {"accept", "break"} -> o.v
               [] o.k = "hang" -> Hang
               [] OTHER -> RangeErr

\* what the body of "for r in sched.rules" appends for rule r at instant t
RuleContribution(r, t) ==
    IF r.type = "oneshot" THEN OneShotIter(r, t).v ELSE ProbeLoop(r, t, t, 0)

\* the instants the rules of a schedule contribute, each taken alone
Alone(rules, t) == {RuleContribution(rules[j], t) : j \in 1..Len(rules)} \ {None}

\* C3 - Composition: a call of next_occurrence on a composed schedule that
\* completes returns the least of the instants its rules contribute each
\* alone for the same now, and fails with no-occurrence exactly when no rule
\* contributes; the result is a function of the set of contributions, so
\* the order of the rules does not change it.
C3_Composition ==
    (op = "next_occurrence" /\ pc = "done" /\ Len(sched) >= 2
        /\ result.k \in {"instant", "no_occurrence"}) =>
        /\ result.k = "instant" =>
              Alone(sched, now) # {} /\ result.v = SetMin(Alone(sched, now))
        /\ result.k = "no_occurrence" <=> Alone(sched, now) = {}

\* a composed schedule returned the instant of its second rule, earlier than
\* the instant of its first rule
C3_Witness ==
    /\ op = "next_occurrence" /\ pc = "done" /\ Len(sched) >= 2
    /\ result.k = "instant"
    /\ contrib[1] # None /\ contrib[2] # None
    /\ contrib[2] < contrib[1] /\ result.v = contrib[2]

\* the exceptions a rule of a composed schedule may be given instead of its own
ExceptChoices == {NoExcept, Ex({4}, {}, FALSE), Ex({}, {D(3, 13)}, FALSE)}

\* C4 - Exception locality: in a composed schedule the instant contributed
\* by rule R_j is the same whatever exceptions another rule R_k carries.
C4_ExceptionLocality ==
    (op = "next_occurrence" /\ Len(sched) >= 2) =>
        \A j \in 1..Len(contrib) : \A k \in (1..Len(sched)) \ {j} :
            \A e \in ExceptChoices :
                RuleContribution(CurrentRule([sched EXCEPT ![k].except_ = e], j), now)
                    = contrib[j]

\* a rule contributed an instant on a date another rule of the schedule excepts
C4_Witness ==
    /\ op = "next_occurrence" /\ pc = "done" /\ Len(sched) >= 2
    /\ \E j \in 1..Len(contrib) : \E k \in (1..Len(sched)) \ {j} :
          /\ contrib[j] # None
          /\ DateOf(contrib[j]) \in sched[k].except_.dates

\* C5 - Window containment: every instant a rule contributes, and so the
\* returned instant, lies inside the window of the rule that produced it:
\* not before w_start (midnight of start) and not after w_end (23:59 of
\* min(end, until)), also when a weekend shift moved the candidate.
C5_WindowContainment ==
    \A j \in Contributors :
        LET w == sched[j].window_date
            ends == {w.end, w.until} \ {None}
        IN  /\ w.start # None => Midnight(w.start) <= contrib[j]
            /\ ends # {} => contrib[j] <= CombineDatetime(SetMin(ends), HM(23, 59))

\* a rule with a window start after now and a weekend shift produced the result
C5_Witness ==
    /\ pc = "done" /\ result.k = "instant" /\ Len(sched) = 1
    /\ sched[1].weekend_shift # "none"
    /\ WStart(sched[1]) # None /\ WStart(sched[1]) > now
    /\ WEnd(sched[1]) # None
    /\ contrib[1] = result.v

\* C6 - Exclusion: no instant contributed by a rule, one-shot or recurring,
\* shifted or not, has a weekday in the rule's except_.weekdays or a date in
\* its except_.dates.
C6_Exclusion ==
    \A j \in Contributors :
        /\ WeekdayOf(contrib[j]) \notin sched[j].except_.weekdays
        /\ DateOf(contrib[j]) \notin sched[j].except_.dates

\* a rule with excepted dates returned an instant after at least one retry
C6_Witness ==
    /\ pc = "done" /\ result.k = "instant" /\ Len(sched) = 1
    /\ sched[1].except_.dates # {} /\ iter > 0
    /\ contrib[1] = result.v

\* the days after now on which firings are looked for
LookDays == 7

\* the ruleset the engine builds for rule r in a call at instant t
RulesetOf(r, t) == BuildRruleset(r, t, WStart(r))

\* c is a candidate of the expander: rs.after(c - 1s, inc=False) gives c
IsCandidate(rs, c) == RrulesetAfter(rs, c - 1, FALSE) = c

\* the times of day at which firings are looked for: the rule's own times,
\* midnight, and the minute of the reference instant (the anchor of a grid)
TestTimes(r, t) == r.times \cup {0, TimeOf(TruncMinute(t))}

\* the instants at which firings are looked for
TestInstants(r, t) ==
    {CombineDatetime(d, tm) : d \in DateOf(t)..(DateOf(t) + LookDays), tm \in TestTimes(r, t)}

\* x is a firing of rule r in a call at instant t: an expander candidate c
\* later than lo, moved by the weekend shift when a mode is set, that is
\* inside [w_start, w_end] and not excluded
Firing(r, t, x, lo) ==
    /\ \E c \in {x, x - Day, x - 2 * Day} :
          /\ c > lo
          /\ IsCandidate(RulesetOf(r, t), c)
          /\ ApplyWeekendShift(c, r.weekend_shift) = x
    /\ WStart(r) # None => WStart(r) <= x
    /\ WEnd(r) # None => x <= WEnd(r)
    /\ Excluded(x, r) = "ok"

\* C2 - Earliest firing: for a schedule of one recurring rule (without
\* within-day step), when next_occurrence returns I no firing of the rule,
\* taken from an expander candidate after now, lies strictly between now and I.
C2_EarliestFiring ==
    (op = "next_occurrence" /\ pc = "done" /\ result.k = "instant"
        /\ Len(sched) = 1 /\ sched[1].type = "rrule" /\ ~HasStep(sched[1])) =>
        \A x \in TestInstants(sched[1], now) :
            (now < x /\ x < result.v) => ~Firing(sched[1], now, x, now)

\* C7 - Weekend shift: an instant contributed by a rule, recurring or
\* one-shot, whose weekend_shift is next_monday or next_business_day is never
\* on a Saturday or a Sunday.
C7_WeekendShift ==
    \A j \in Contributors :
        sched[j].weekend_shift # "none" => ~IsWeekend(DateOf(contrib[j]))

\* C8 - Termination: the probe loop runs at most 500 iterations per rule and
\* no expander call or within-day expansion inside it runs for ever.
C8_Termination == iter <= MaxProbes /\ pc # "hung"

\* C9 - No false emptiness: for a schedule of one recurring rule (without
\* within-day step), next_occurrence fails with no-occurrence, and validate
\* raises the no-occurrence error, only if the rule has no firing, taken from
\* an expander candidate after now, in (now, horizon].
C9_NoFalseEmptiness ==
    (pc = "done" /\ Len(sched) = 1 /\ sched[1].type = "rrule" /\ ~HasStep(sched[1])
        /\ \/ op = "next_occurrence" /\ result.k = "no_occurrence"
           \/ op = "validate" /\ vresult.k = "invalid_no_occurrence") =>
        \A x \in TestInstants(sched[1], now) :
            (now < x /\ x <= HorizonEnd(sched[1], now)) => ~Firing(sched[1], now, x, now)

\* rule r has no firing in (t, w_end], where w_end is set and at most LookDays
\* days after t and the rule fires at its own times of day only
EmptyBeforeWindowEnd(r, t) ==
    /\ r.type = "rrule" /\ ~HasStep(r) /\ r.times # {}
    /\ WEnd(r) # None /\ WEnd(r) <= t + LookDays * Day
    /\ \A x \in TestInstants(r, t) :
          (t < x /\ x <= WEnd(r)) => ~Firing(r, t, x, t - 3 * Day)

\* C10 - Empty-rule detection: validate raises InvalidRuleError whenever some
\* recurring rule of the schedule, alone or one of several, has no
\* non-excluded firing in (now, horizon].
C10_EmptyRuleDetection ==
    (op = "validate" /\ pc = "done" /\ vresult.k # "range_error") =>
        \A j \in 1..Len(sched) :
            EmptyBeforeWindowEnd(sched[j], now) =>
                vresult.k \in {"invalid_window", "invalid_oneshot", "invalid_no_occurrence"}

\* the calls of operation o completed before the one under way
Earlier(o) == {calls[n] : n \in {m \in 1..Len(calls) : calls[m].op = o}}

\* C11 - Validate implies a result: when validate returned without raising,
\* next_occurrence with the same text and the same now returns an instant.
C11_ValidateImpliesResult ==
    (op = "next_occurrence" /\ pc = "done" /\ \E c \in Earlier("validate") : c.out = "ok")
        => result.k = "instant"

\* the effective window end of rule r, 23:59 of min(end, until), is earlier
\* than its window start, midnight of start
Inverted(r) ==
    LET w == r.window_date
        ends == {w.end, w.until} \ {None}
    IN  /\ w.start # None /\ ends # {}
        /\ CombineDatetime(SetMin(ends), HM(23, 59)) < Midnight(w.start)

\* C12 - Inverted window: when some rule of the schedule has an inverted
\* window, validate computes no occurrence (it never enters next_occurrence)
\* and ends by raising InvalidRuleError.
C12_InvertedWindow ==
    (op = "validate" /\ \E j \in 1..Len(sched) : Inverted(sched[j])) =>
        /\ pc \notin {"rules", "probe", "filter", "returned", "hung"}
        /\ pc = "done" =>
              vresult.k \in {"invalid_window", "invalid_oneshot", "invalid_no_occurrence"}

WithoutHolidays(r) == [r EXCEPT !.except_.holidays = FALSE]

\* the rule being processed has the public-holidays flag set and its current
\* candidate reaches the exclusion predicate without being excluded by the
\* hourly filter, an excepted weekday or an excepted date
HolidayCandidate ==
    /\ op = "next_occurrence" /\ i <= Len(sched) /\ sched[i].except_.holidays
    /\ \/ /\ pc = "filter"
          /\ ProbeFilter(WithoutHolidays(sched[i]), probe, base).k = "accept"
       \/ /\ pc = "rules" /\ sched[i].type = "oneshot"
          /\ OneShotIter(WithoutHolidays(sched[i]), now).v # None

\* C14 - Public holidays unsupported: no instant is contributed by a rule
\* whose except_.holidays.enabled is set, and whenever a candidate of such a
\* rule reaches the exclusion predicate and is not excluded otherwise, the
\* call fails with the unsupported-feature error.
C14_HolidaysUnsupported ==
    /\ [](\A j \in Contributors : ~sched[j].except_.holidays)
    /\ [][HolidayCandidate => (result'.k = "unsupported" /\ pc' = "done")]_vars

\* a call on a recurring rule with the flag set failed as unsupported
C14_Witness ==
    /\ op = "next_occurrence" /\ pc = "done" /\ result.k = "unsupported"
    /\ sched[1].type = "rrule"

\* C15 - One-shot emission: a one-shot rule contributes its instant at if
\* and only if at > now and at is on no excepted weekday or date; otherwise
\* it contributes nothing, and it never contributes another instant.
C15_OneShotEmission ==
    \A j \in 1..Len(contrib) :
        sched[j].type = "oneshot" =>
            contrib[j] = IF /\ sched[j].at > now
                            /\ WeekdayOf(sched[j].at) \notin sched[j].except_.weekdays
                            /\ DateOf(sched[j].at) \notin sched[j].except_.dates
                         THEN sched[j].at
                         ELSE None

\* a one-shot with exceptions that do not hit it gave the returned instant
C15_Witness ==
    /\ op = "next_occurrence" /\ pc = "done" /\ Len(sched) = 1
    /\ sched[1].type = "oneshot" /\ sched[1].except_.weekdays # {}
    /\ result.k = "instant" /\ result.v = sched[1].at

\* rule r is monthly or yearly with one weekday and one position
Positional(r) ==
    /\ r.type = "rrule" /\ r.freq \in {"monthly", "yearly"}
    /\ Cardinality(r.byweekday) = 1 /\ Cardinality(r.bysetpos) = 1

\* day d is the n-th weekday w of its month counted from the 1st, the last
\* one when n = -1
IsNthWeekday(d, w, n) ==
    /\ WeekdayOfDay(d) = w
    /\ n > 0 => (DomOfDay(d) - 1) \div 7 + 1 = n
    /\ n < 0 => DomOfDay(d) + 7 > LastDayOfMonth(YearOfDay(d), MonthOfDay(d))

Plain(r) ==
    /\ r.except_ = NoExcept /\ r.window_date = NoWindow /\ r.weekend_shift = "none"

\* the instants day + between_time.start + k * step (k >= 0) not after
\* day + between_time.end, on the qualifying days from the day of t on
StepSlots(r, t) ==
    LET st == StepToTimedelta(r.step)
        days == {d \in DateOf(t)..(DateOf(t) + LookDays) :
                    r.byweekday = {} \/ WeekdayOfDay(d) \in r.byweekday}
    IN  {CombineDatetime(d, r.between_time.start + k * st) :
            d \in days, k \in 0..((r.between_time.end - r.between_time.start) \div st)}

\* C17 - Step within day: for a daily rule with step and between_time and no
\* exception, window or shift, next_occurrence returns the smallest slot
\* after now, a slot being start + k * step up to end on a qualifying day.
C17_StepWithinDay ==
    (op = "next_occurrence" /\ pc = "done" /\ Len(sched) = 1
        /\ HasStep(sched[1]) /\ HasBetween(sched[1]) /\ Plain(sched[1])
        /\ StepToTimedelta(sched[1].step) > 0) =>
        /\ result.k = "instant"
        /\ result.v = SetMin({x \in StepSlots(sched[1], now) : x > now})

\* the number of grid steps after the anchor that are looked at
GridSteps == 48

\* rule r is hourly with between_time and no step
HourlyFiltered(r) == r.type = "rrule" /\ r.freq = "hourly" /\ HasBetween(r) /\ ~HasStep(r)

\* the time of day of x is inside between_time, both ends included
InFilter(r, x) == r.between_time.start <= TimeOf(x) /\ TimeOf(x) <= r.between_time.end

\* the anchor of the grid of rule r in a call at t: the window start if set,
\* else t, at second 0
GridAnchor(r, t) == TruncMinute(IF WStart(r) # None THEN WStart(r) ELSE t)

\* the instants anchor + k * interval hours, k >= 0
Grid(r, t) == {GridAnchor(r, t) + k * r.interval * Hour : k \in 0..GridSteps}

Dispatched == op = "parse_schedule" /\ pc = "done"

\* the tokens of the text under way that a marker set counts
Counted(markers) == {n \in 1..Len(text) : text[n].k = "w" /\ text[n].s \in markers}

\* C19 - Language dispatch: parse_schedule tries the FR parser first if and
\* only if the text has strictly more FR marker tokens than EN marker tokens
\* (a tie selects EN); no token of the text is counted for both languages;
\* the second parser is invoked only when the first raised a parse error (and
\* always then), and the outcome is the result or the error of the last
\* parser invoked.
C19_LanguageDispatch ==
    Dispatched =>
          /\ Counted(FR_MARKERS) \cap Counted(EN_MARKERS) = {}
          /\ Len(tried) \in {1, 2}
          /\ (tried[1].parser = "fr") <=> (Hits(text, FR_MARKERS) > Hits(text, EN_MARKERS))
          /\ (tried[1].parser = "en") <=> (Hits(text, FR_MARKERS) <= Hits(text, EN_MARKERS))
          /\ (Len(tried) = 2) <=> (tried[1].out.k = "ValueError")
          /\ Len(tried) = 2 => tried[2].parser = Other(tried[1].parser)
          /\ sched = tried[Len(tried)].out.rules

\* the same without the disjointness of the marker sets
C19_OrderAndFallback ==
    Dispatched =>
          /\ Len(tried) \in {1, 2}
          /\ (tried[1].parser = "fr") <=> (Hits(text, FR_MARKERS) > Hits(text, EN_MARKERS))
          /\ (Len(tried) = 2) <=> (tried[1].out.k = "ValueError")
          /\ Len(tried) = 2 => tried[2].parser = Other(tried[1].parser)
          /\ sched = tried[Len(tried)].out.rules

\* ------------------------------------------------------------------------
\* FR/EN equivalence
\* ------------------------------------------------------------------------

\* the pairs whose French text is the text under way
PairsOfFr == {p \in 1..Len(Pairs) : text = Pairs[p].fr}

\* next_occurrence returned or raised on the English text of a pair, after
\* the call on the French text of the pair
BothCalled == op = "next_occurrence" /\ pc = "done" /\ Len(calls) = 1

\* the French text of a pair is transliterated to a text the EN parser
\* accepts, and the IR of it is the IR of the English text of the pair
SameIR ==
    \A p \in PairsOfFr :
        pc = "done" =>
            /\ ParseScheduleEn(FrToEnRule(text)).k = "ok"
            /\ ParseScheduleFr(text) = ParseScheduleEn(Pairs[p].en)

\* C20 - FR/EN equivalence: for every paired French and English rule of the
\* reference lists, the French text is transliterated to a text the EN
\* parser accepts and parses to the IR of the English text, and
\* next_occurrence returns an instant for the French text that is the
\* instant it returns for the English text for the same now.
C20_FrEnEquivalence ==
    /\ SameIR
    /\ BothCalled =>
          /\ calls[1].out.k = "instant"
          /\ calls[1].out = result

\* ------------------------------------------------------------------------
\* Direct calls of the expander: rruleset.after(dt, inc) on rule objects
\* (src/dateutil/rrule.py)
\* ------------------------------------------------------------------------

\* anchors of the rule objects: Saturday 2026-01-31T10:00, Thursday 2026-03-12T12:00
Anchors == {CombineDatetime(D(1, 31), HM(10, 0)), CombineDatetime(D(3, 12), HM(12, 0))}

\* rrule(freq=..., interval=n, dtstart=a, byweekday=wds)
Stepping(freq, n, a, wds) == MkRrule(freq, n, a, {}, wds, {}, {}, None, None)

\* rrule(..., dtstart=a.replace(hour, minute), byhour=hour, byminute=minute),
\* as _build_rruleset.add_rr makes the object of a time of the rule
Timed(freq, n, a, bymonth, wds, days, pos, t) ==
    MkRrule(freq, n, ReplaceHM(a, t \div Hour, (t % Hour) \div Minute), bymonth, wds, days, pos,
            t \div Hour, (t % Hour) \div Minute)

\* the rule objects anchored at a
RuleObjects(a) == {
    Stepping("minutely", 15, a, {}),
    Stepping("minutely", 90, a, {0}),
    Stepping("hourly", 6, a, {}),
    Stepping("hourly", 6, a, {0}),
    Stepping("daily", 2, a, {}),
    Stepping("daily", 1, a, {0, 1, 2, 3, 4}),
    Stepping("daily", 7, a, {3}),
    Stepping("daily", 7, a, {0}),
    Stepping("weekly", 1, a, {}),
    Stepping("monthly", 1, a, {}),
    Stepping("monthly", 2, a, {}),
    Timed("daily", 1, a, {}, {}, {}, {}, HM(9, 0)),
    Timed("weekly", 1, a, {}, {0, 3}, {}, {}, HM(18, 0)),
    Timed("weekly", 3, a, {}, {0}, {}, {}, HM(8, 30)),
    Timed("monthly", 1, a, {}, {}, {1}, {}, HM(9, 0)),
    Timed("monthly", 1, a, {}, {}, {14, 15}, {}, HM(8, 0)),
    Timed("monthly", 1, a, {}, {}, {31}, {}, HM(20, 0)),
    Timed("monthly", 1, a, {}, {}, {30, 0 - 1}, {}, HM(20, 0)),
    Timed("monthly", 1, a, {}, {0}, {}, {1}, HM(9, 0)),
    Timed("monthly", 1, a, {}, {0}, {}, {5}, HM(9, 0)),
    Timed("yearly", 1, a, {3}, {}, {14}, {}, HM(10, 0)),
    Timed("yearly", 1, a, {10}, {6}, {}, {0 - 1}, HM(23, 0))
}

\* the sets of rule objects: one object, or the objects of a rule with two times
Rulesets ==
    UNION {{<<o>> : o \in RuleObjects(a)} : a \in Anchors}
    \cup {<<Timed("daily", 1, a, {}, {}, {}, {}, HM(9, 0)),
            Timed("daily", 1, a, {}, {}, {}, {}, HM(18, 0))>> : a \in Anchors}

\* the instants after() is asked about
Targets == {
    CombineDatetime(D(1, 31), HM(10, 0)),
    CombineDatetime(D(2, 1), HM(0, 0)),
    CombineDatetime(D(3, 12), HM(12, 0)),
    CombineDatetime(D(3, 12), HM(12, 0)) + 30,
    CombineDatetime(D(3, 14), HM(9, 0)),
    CombineDatetime(D(4, 30), HM(20, 0))
}

AfterInit ==
    /\ op = "after"
    /\ members \in Rulesets
    /\ target \in Targets
    /\ inclusive \in BOOLEAN
    /\ next_values = <<>>
    /\ answer = None
    /\ pc = "members"
    /\ sched = <<>>
    /\ arg = None
    /\ calls = <<>>
    /\ text = <<>>
    /\ lang = "none"
    /\ tried = <<>>
    /\ now = None
    /\ vi = 1
    /\ i = 1
    /\ probe = None
    /\ iter = 0
    /\ base = None
    /\ contrib = <<>>
    /\ result = Pending
    /\ vresult = Pending

\* the member rule.after is called on next
Member == members[Len(next_values) + 1]

\* "next_values = [rule.after(dt, inc=inc) for rule in self._rules]": the
\* value v of a member joins the list; a member call that does not return
\* or raises ends the call of rruleset.after
MemberValue(v) ==
    /\ IF v = Hang THEN pc' = "hung" /\ UNCHANGED next_values
       ELSE IF v = RangeErr THEN pc' = "raised" /\ UNCHANGED next_values
       ELSE /\ next_values' = Append(next_values, v)
            /\ pc' = IF Len(next_values) + 1 = Len(members) THEN "min" ELSE "members"
    /\ UNCHANGED <<members, target, inclusive, answer, arg, calls, text, lang, tried, op, sched,
                   now, vi, i, probe, iter, base, contrib, result, vresult>>

\* rrule.after, one action for each frequency it dispatches on
MemberOf(freq) == pc = "members" /\ Member.freq = freq

MinutelyAfter == MemberOf("minutely") /\ MemberValue(AfterMinutely(Member, target, inclusive))
HourlyAfter == MemberOf("hourly") /\ MemberValue(AfterHourly(Member, target, inclusive))
DailyAfter == MemberOf("daily") /\ MemberValue(AfterDaily(Member, target, inclusive))
WeeklyAfter == MemberOf("weekly") /\ MemberValue(AfterWeekly(Member, target, inclusive))
MonthlyAfter == MemberOf("monthly") /\ MemberValue(AfterMonthly(Member, target, inclusive))
YearlyAfter == MemberOf("yearly") /\ MemberValue(AfterYearly(Member, target, inclusive))

\* rruleset.after, "return min(candidates) if candidates else None"
MinOfValues ==
    /\ pc = "min"
    /\ answer' = IF {v \in Range(next_values) : v # None} # {}
                 THEN SetMin({v \in Range(next_values) : v # None}) ELSE None
    /\ pc' = "returned"
    /\ UNCHANGED <<members, target, inclusive, next_values, arg, calls, text, lang, tried, op,
                   sched, now, vi, i, probe, iter, base, contrib, result, vresult>>

AfterNext ==
    \/ MinutelyAfter
    \/ HourlyAfter
    \/ DailyAfter
    \/ WeeklyAfter
    \/ MonthlyAfter
    \/ YearlyAfter
    \/ MinOfValues

AfterSpec == AfterInit /\ [][AfterNext]_vars

\* ------------------------------------------------------------------------
\* The candidate sequence of a rule object, instant by instant
\* ------------------------------------------------------------------------

\* days after the instant asked about in which a candidate is looked for
SeqDays == 400

\* the time of day of the candidates of a weekly, monthly or yearly rule:
\* byhour:byminute, and the start of the day for a rule without them
SeqTime(rr) ==
    (IF rr.byhour # None THEN rr.byhour ELSE 0) * Hour
    + (IF rr.byminute # None THEN rr.byminute ELSE 0) * Minute

\* the step of a minutely, hourly or daily rule
SeqStep(rr) ==
    rr.interval * (IF rr.freq = "minutely" THEN Minute ELSE IF rr.freq = "hourly" THEN Hour ELSE Day)

\* months since year 0 of the month of day d
MonthIndex(d) == YearOfDay(d) * 12 + MonthOfDay(d) - 1

FirstOfMonth(d) == d - DomOfDay(d) + 1
LastOfMonth(d) == FirstOfMonth(d) + LastDayOfMonth(YearOfDay(d), MonthOfDay(d)) - 1

\* day d is the pos-th day of its month among the days with a weekday of
\* wds, counted from the start (pos > 0) or from the end (pos < 0)
IsNthOfMonth(d, wds, pos) ==
    /\ WeekdayOfDay(d) \in wds
    /\ \/ pos > 0 /\ Cardinality({e \in FirstOfMonth(d)..d : WeekdayOfDay(e) \in wds}) = pos
       \/ pos < 0 /\ Cardinality({e \in d..LastOfMonth(d) : WeekdayOfDay(e) \in wds}) = 0 - pos

\* the by-* selectors of a monthly or yearly rule select day d in its month
DaySelected(rr, d) ==
    IF rr.bysetpos # {} /\ rr.byweekday # {}
    THEN \E pos \in rr.bysetpos : IsNthOfMonth(d, rr.byweekday, pos)
    ELSE IF rr.bymonthday # {}
    THEN DomOfDay(d) \in rr.bymonthday \/ (0 - 1 \in rr.bymonthday /\ d = LastOfMonth(d))
    ELSE DomOfDay(d) = DomOfDay(DateOf(rr.dtstart))

\* instant x is in the candidate sequence of rule object rr: frequency and
\* interval counted from the anchor, by-* selectors applied
InSequence(rr, x) ==
    CASE rr.freq \in {"minutely", "hourly", "daily"} ->
            /\ x >= rr.dtstart /\ (x - rr.dtstart) % SeqStep(rr) = 0
            /\ (rr.byweekday = {} \/ WeekdayOf(x) \in rr.byweekday)
      [] rr.freq = "weekly" ->
            /\ WeekStart(DateOf(x)) >= WeekStart(DateOf(rr.dtstart))
            /\ (WeekStart(DateOf(x)) - WeekStart(DateOf(rr.dtstart))) % (7 * rr.interval) = 0
            /\ WeekdayOf(x) \in (IF rr.byweekday # {} THEN rr.byweekday
                                 ELSE {WeekdayOf(rr.dtstart)})
            /\ TimeOf(x) = SeqTime(rr)
      [] rr.freq = "monthly" ->
            /\ MonthIndex(DateOf(x)) >= MonthIndex(DateOf(rr.dtstart))
            /\ (MonthIndex(DateOf(x)) - MonthIndex(DateOf(rr.dtstart))) % rr.interval = 0
            /\ (rr.bymonth = {} \/ MonthOfDay(DateOf(x)) \in rr.bymonth)
            /\ DaySelected(rr, DateOf(x))
            /\ TimeOf(x) = SeqTime(rr)
      [] rr.freq = "yearly" ->
            /\ YearOfDay(DateOf(x)) >= YearOfDay(DateOf(rr.dtstart))
            /\ (YearOfDay(DateOf(x)) - YearOfDay(DateOf(rr.dtstart))) % rr.interval = 0
            /\ MonthOfDay(DateOf(x)) \in (IF rr.bymonth # {} THEN rr.bymonth
                                          ELSE {MonthOfDay(DateOf(rr.dtstart))})
            /\ DaySelected(rr, DateOf(x))
            /\ TimeOf(x) = SeqTime(rr)

\* the instants from lo to hi at which rule object rr can have a candidate
Places(rr, lo, hi) ==
    IF rr.freq \in {"minutely", "hourly", "daily"}
    THEN {rr.dtstart + k * SeqStep(rr) :
             k \in (IF lo > rr.dtstart THEN (lo - rr.dtstart) \div SeqStep(rr) ELSE 0)
                   ..((hi - rr.dtstart) \div SeqStep(rr))}
    ELSE {CombineDatetime(d, SeqTime(rr)) : d \in DateOf(lo)..DateOf(hi)}

\* "> T when inc is false and >= T when inc is true"
Admitted(t, inc, x) == x > t \/ (inc /\ x = t)

\* the candidates of rr from t (t included when inc) up to hi
SeqFrom(rr, t, inc, hi) == {x \in Places(rr, t, hi) : InSequence(rr, x) /\ Admitted(t, inc, x)}

\* v is the smallest instant of the candidate sequence of rr admitted by (t, inc)
IsSmallest(rr, t, inc, v) ==
    /\ InSequence(rr, v)
    /\ Admitted(t, inc, v)
    /\ \A x \in SeqFrom(rr, t, inc, v) : v <= x

\* C21 - Expander result: every value rule.after(T, inc) gives is the
\* smallest instant of the rule's candidate sequence (frequency, interval
\* and by-* selectors applied from the anchor) that is > T, or >= T when inc
\* is true; a member call gives no value only when the sequence has no such
\* instant in the days looked at; and rruleset.after returns the minimum of
\* the values of its members.
C21_ExpanderResult ==
    op = "after" =>
        /\ \A j \in 1..Len(next_values) :
              IsSmallest(members[j], target, inclusive, next_values[j])
        /\ pc \in {"hung", "raised"} =>
              SeqFrom(Member, target, inclusive, target + SeqDays * Day) = {}
        /\ pc = "returned" =>
              /\ answer \in Range(next_values)
              /\ \A j \in 1..Len(next_values) : answer <= next_values[j]

\* the same for the rule objects whose frequency is not minutely or hourly
\* with byweekday, and that are not monthly without bymonthday and bysetpos
C21_OtherObjects ==
    (op = "after" /\ \A j \in 1..Len(members) :
                        /\ ~(members[j].freq \in {"minutely", "hourly"}
                             /\ members[j].byweekday # {})
                        /\ ~(members[j].freq = "monthly" /\ members[j].bymonthday = {}
                             /\ members[j].bysetpos = {})) =>
        /\ \A j \in 1..Len(next_values) :
              IsSmallest(members[j], target, inclusive, next_values[j])
        /\ pc \in {"hung", "raised"} =>
              SeqFrom(Member, target, inclusive, target + SeqDays * Day) = {}
        /\ pc = "returned" =>
              /\ answer \in Range(next_values)
              /\ \A j \in 1..Len(next_values) : answer <= next_values[j]

\* C22 - Minutely and hourly rules honour byweekday: every instant the
\* expander returns for a minutely or hourly rule with byweekday set has a
\* weekday in byweekday.
C22_ByWeekday ==
    op = "after" =>
        \A j \in 1..Len(next_values) :
            (members[j].freq \in {"minutely", "hourly"} /\ members[j].byweekday # {}) =>
                WeekdayOf(next_values[j]) \in members[j].byweekday

\* a monthly rule object without bymonthday and without bysetpos
PlainMonthly(rr) == rr.freq = "monthly" /\ rr.bymonthday = {} /\ rr.bysetpos = {}

\* C23 - Monthly expansion without bymonthday and bysetpos uses the anchor's
\* day of month: every value is on that day of its month and is the smallest
\* candidate, and a month without that day is skipped, so the call raises no
\* error while a later month has the day.
C23_AnchorDay ==
    op = "after" =>
        /\ \A j \in 1..Len(next_values) :
              PlainMonthly(members[j]) =>
                  /\ DomOfDay(DateOf(next_values[j])) = DomOfDay(DateOf(members[j].dtstart))
                  /\ IsSmallest(members[j], target, inclusive, next_values[j])
        /\ (pc = "raised" /\ PlainMonthly(Member)) =>
              SeqFrom(Member, target, inclusive, target + SeqDays * Day) = {}

\* a monthly rule object with bymonthday, not positional
MonthlyByDay(rr) ==
    rr.freq = "monthly" /\ rr.bymonthday # {} /\ ~(rr.bysetpos # {} /\ rr.byweekday # {})

\* the day of instant x is a day of the list days, -1 being the last day of
\* the month of x
OnListedDay(days, x) ==
    \/ DomOfDay(DateOf(x)) \in days
    \/ (0 - 1 \in days /\ DateOf(x) = LastOfMonth(DateOf(x)))

\* C24 - Monthly bymonthday: every instant returned for a monthly rule with
\* bymonthday is on a listed day of its month, -1 standing for the last day
\* of that month, and is the smallest candidate after the target: a listed
\* day beyond the length of a month is discarded for that month, not
\* clamped, and the call raises no error.
C24_ByMonthDay ==
    op = "after" =>
        /\ \A j \in 1..Len(next_values) :
              MonthlyByDay(members[j]) =>
                  /\ OnListedDay(members[j].bymonthday, next_values[j])
                  /\ IsSmallest(members[j], target, inclusive, next_values[j])
        /\ ~(pc \in {"raised", "hung"} /\ MonthlyByDay(Member))

\* the rule of day 31 asked on the last day of a 30-day month returns the
\* 31st of the month after
C24_Witness ==
    /\ op = "after" /\ pc = "returned" /\ MonthlyByDay(members[1])
    /\ members[1].bymonthday = {31}
    /\ LastDayOfMonth(YearOfDay(DateOf(target)), MonthOfDay(DateOf(target))) = 30
    /\ MonthOfDay(DateOf(answer)) = MonthOfDay(DateOf(target)) + 1
    /\ DomOfDay(DateOf(answer)) = 31

\* the later of the window start and now, truncated to the minute
MaxAnchor(t, w_start) == TruncMinute(IF w_start # None /\ w_start > t THEN w_start ELSE t)

\* the current rule is recurring and is not a monthly or yearly positional one
GridAnchored(r) ==
    /\ r.type = "rrule"
    /\ ~(r.freq \in {"monthly", "yearly"} /\ r.bysetpos # {} /\ r.byweekday # {})

\* C25 - Anchor choice: for every recurring rule that is not monthly/yearly
\* positional the expander the probe loop asks is the one anchored at
\* max(w_start, now) truncated to the minute, and so is the candidate it
\* gives: with a window start before now the grid of an "every N units" rule
\* is counted from now.
C25_AnchorChoice ==
    (op = "next_occurrence" /\ pc \in {"probe", "filter"} /\ GridAnchored(CurrentRule(sched, i))) =>
        LET r == CurrentRule(sched, i)
            built == BuildRruleset(r, now, WStart(r))
            anchored == BuildRruleset(r, MaxAnchor(now, WStart(r)), None)
        IN  /\ built = anchored
            /\ (pc = "filter" /\ iter = 0) =>
                   base = ProbeRuleset(r, probe, anchored).v

\* a text has been parsed into IR rules
ParsedText == text # <<>> /\ sched # <<>>

\* the ranges of the numeric fields of a Recurring rule
InDomain(r) ==
    /\ r.interval >= 1
    /\ r.bymonth \subseteq 1..12
    /\ r.bymonthday \subseteq (1..31) \cup {0 - 1}
    /\ r.bysetpos \subseteq (1..5) \cup {0 - 1}

\* C26 - IR domain invariant: every Recurring rule parse_rule returns has
\* interval >= 1, bymonth within 1..12, bymonthday within 1..31 or -1 and
\* bysetpos within 1..5 or -1; a text whose numerals are out of these
\* ranges is rejected with a parse error and yields no IR rule.
C26_IRDomain ==
    ParsedText =>
        \A j \in 1..Len(sched) : sched[j].type = "rrule" => InDomain(sched[j])

\* the orders that write the clauses of order o
SameClauses(o) == {q \in SuffixOrders : {q[n] : n \in DOMAIN q} = {o[n] : n \in DOMAIN o}}

\* C27 - Suffix order independence: the IR parse_rule yields for a rule
\* body followed by its trailing clauses (weekend shift, between D1 and D2,
\* until D, except <list>) is the IR it yields for the same clauses written
\* in any other order: same weekend_shift, same window, same exceptions;
\* the stripping loop ends in every case.
C27_SuffixOrder ==
    ParsedText =>
        \A o \in SuffixOrders :
            text = Written(o) =>
                \A q \in SameClauses(o) :
                    ParseScheduleEn(Written(q)) = [k |-> "ok", rules |-> sched]

\* the candidate an iteration examines against the window and the
\* exceptions: the base candidate expanded within its day and shifted off
\* the weekend; None, Hang or RangeErr when the expansion gives none
Examined(r, p, dt1) ==
    LET dt2 == IF HasStep(r) /\ HasBetween(r) THEN ExpandStepWithinDay(dt1, r, p) ELSE dt1
    IN  IF dt2 = None \/ IsErr(dt2) THEN dt2 ELSE ApplyWeekendShift(dt2, r.weekend_shift)

\* C28 - Probe progress: in the probe loop of a rule the probe never drops
\* below now, every candidate examined is strictly greater than the probe it
\* was asked after, and each retry (no slot left within the day, candidate
\* before the window start, candidate excluded) strictly increases the
\* probe, so no candidate is examined twice.
C28_ProbeProgress ==
    /\ [](pc \in {"probe", "filter"} =>
             /\ probe >= now
             /\ pc = "filter" =>
                    \/ Examined(CurrentRule(sched, i), probe, base) = None
                    \/ IsErr(Examined(CurrentRule(sched, i), probe, base))
                    \/ Examined(CurrentRule(sched, i), probe, base) > probe)
    /\ [][(pc = "filter" /\ pc' = "probe") =>
             /\ probe' > probe
             /\ (Examined(CurrentRule(sched, i), probe, base) # None =>
                    probe' >= Examined(CurrentRule(sched, i), probe, base))]_vars

\* a probe loop in its third iteration, after two retries
C28_Witness == pc = "filter" /\ iter = 2 /\ probe > now /\ base > probe

\* the other of the two shift modes
OtherMode(mode) ==
    IF mode = "next_monday" THEN "next_business_day"
    ELSE IF mode = "next_business_day" THEN "next_monday"
    ELSE mode

\* rule r with its shift mode replaced by the other one, and without one
Swapped(r) == [r EXCEPT !.weekend_shift = OtherMode(@)]
Unshifted(r) == [r EXCEPT !.weekend_shift = "none"]

\* the rule of the probe loop has a shift mode and the iteration has a
\* candidate to shift
Shifting ==
    /\ pc = "filter" /\ CurrentRule(sched, i).weekend_shift # "none"
    /\ Examined(Unshifted(CurrentRule(sched, i)), probe, base) # None
    /\ ~IsErr(Examined(Unshifted(CurrentRule(sched, i)), probe, base))

\* C29 - Shift modes coincide: what a rule with a shift mode contributes to
\* next_occurrence is what the rule with the other mode contributes for the
\* same now, so the result is the same; in both modes the shift moves a
\* weekend candidate by one or two days to the following Monday and keeps its
\* time of day, and leaves a candidate on a week day unchanged.
C29_ShiftModes ==
    /\ \A j \in 1..Len(contrib) :
          sched[j].weekend_shift # "none" =>
              contrib[j] = RuleContribution(Swapped(sched[j]), now)
    /\ Shifting =>
          LET r == CurrentRule(sched, i)
              dt == Examined(Unshifted(r), probe, base)
              shifted == Examined(r, probe, base)
          IN  /\ shifted = Examined(Swapped(r), probe, base)
              /\ ProbeFilter(r, probe, base) = ProbeFilter(Swapped(r), probe, base)
              /\ TimeOf(shifted) = TimeOf(dt)
              /\ IF IsWeekend(DateOf(dt))
                 THEN /\ WeekdayOfDay(DateOf(shifted)) = 0
                      /\ DateOf(shifted) - DateOf(dt) \in {1, 2}
                 ELSE shifted = dt

\* a candidate on a Saturday is shifted in the mode next_business_day
C29_Witness ==
    /\ Shifting /\ CurrentRule(sched, i).weekend_shift = "next_business_day"
    /\ WeekdayOfDay(DateOf(Examined(Unshifted(CurrentRule(sched, i)), probe, base))) = 5
    /\ DateOf(Examined(CurrentRule(sched, i), probe, base)) =
           DateOf(Examined(Unshifted(CurrentRule(sched, i)), probe, base)) + 2

\* ------------------------------------------------------------------------
\* next_occurrence asked again with a later reference instant: the caller
\* that got the instant t for now calls again, same rules, with a now'
\* between now and t
\* ------------------------------------------------------------------------

\* how long after now the second call is made, when that is before t
Delays == {1, 7 * Minute, 2 * Hour}

\* the reference instants of the second call: now + a delay, and one second
\* before t
LaterNows(t0, t) == {x \in {t0 + d : d \in Delays} \cup {t - 1} : t0 <= x /\ x < t}

LaterInit == Init /\ op = "next_occurrence"

LaterCall ==
    /\ pc = "done" /\ op = "next_occurrence" /\ calls = <<>> /\ result.k = "instant"
    /\ calls' = Append(calls, [op |-> op, out |-> result])
    /\ \E t \in LaterNows(now, result.v) : Enter("next_occurrence", t)
    /\ UNCHANGED <<expander, arg, sched, text, lang, tried>>

LaterNext ==
    \/ OneShotStep
    \/ StartRecurring
    \/ ProbeAskStep
    \/ ProbeFilterStep
    \/ ProbeExhausted
    \/ Finish
    \/ LaterCall

LaterSpec == LaterInit /\ [][LaterNext]_vars

\* the second call has ended
AskedAgain == pc = "done" /\ calls # <<>>

CalendarFixed(r) ==
    \/ r.type = "oneshot"
    \/ /\ r.type = "rrule" /\ r.freq \in {"daily", "weekly", "monthly", "yearly"}
       /\ r.interval = 1 /\ r.times # {} /\ r.weekend_shift = "none"

====
